---- MODULE Spec2Model ----
(***************************************************************************)
(* SinglePlayerServer (src/unnamed/part_000): the authoritative tick-driven *)
(* simulation of the naval combat game, with the shared tables of          *)
(* src/src/shared/types.ts.                                                *)
(*                                                                         *)
(* Coordinates are whole pixels.  Every modelled entity lies on the row    *)
(* y = Row and headings are whole degrees that are multiples of 180, so    *)
(* that Math.cos / Math.sin / Angle.Between are exact (1, -1, 0).          *)
(* Time is the wall clock Date.now() in milliseconds.                      *)
(***************************************************************************)
EXTENDS Integers, Sequences, FiniteSets, TLC

\* ------------------------------------------------------------------------
\* Program constants
\* ------------------------------------------------------------------------
TICK_INTERVAL == 50
WORLD_WIDTH == 3000
WORLD_HEIGHT == 3000
MAX_NEUTRALS == 50
NEUTRAL_SPAWN_INTERVAL == 2000
CARGO_SPEED == 60
DRONE_SPEED == 280
DRONE_DAMAGE == 5
DRONE_RANGE == 200
DRONE_LIFETIME == 5000
SHIP_RADIUS == 25
BULLET_RADIUS == 6
DRONE_RADIUS == 12
LIGHTHOUSE_RANGE == 500
LIGHTHOUSE_DAMAGE == 15
LIGHTHOUSE_FIRE_RATE == 2000
TANK_RANGE == 400
TANK_DAMAGE == 20
TANK_FIRE_RATE == 1500
MAX_STAT_POINTS == 7
MAX_LEVEL == 10
SPAWN_PROTECTION_MS == 3000
PLAYER_BULLET_SPEED == 600
PLAYER_BULLET_LIFETIME == 2000
NEUTRAL_BULLET_SPEED == 400
NEUTRAL_BULLET_LIFETIME == 3000
GRID_CELL_SIZE == 140
INITIAL_NEUTRALS == 30

\* Ids are pairs <<prefix, number>>: the template strings `${prefix}-${n}` of the
\* source; a player id is its name paired with 0.
localPlayerId == <<"local-player", 0>>

ShipClasses ==
    {"patrol_boat", "destroyer", "cruiser", "battleship", "submarine", "carrier"}

StatNames == {"healthBonus", "speedBonus", "damageBonus", "reloadBonus"}

DEFAULT_STATS ==
    [healthBonus |-> 0, speedBonus |-> 0, damageBonus |-> 0, reloadBonus |-> 0]

SHIP_UPGRADE_PATHS ==
    [c \in ShipClasses |->
        IF c = "patrol_boat"
        THEN <<"destroyer", "cruiser", "battleship", "submarine", "carrier">>
        ELSE <<>>]

SHIP_UNLOCK_LEVELS ==
    [patrol_boat |-> 1, destroyer |-> 2, cruiser |-> 4,
     battleship |-> 5, submarine |-> 6, carrier |-> 7]

SHIP_STATS ==
    [patrol_boat |-> [maxHealth |-> 100, speed |-> 300, fireRate |-> 400, damage |-> 12],
     destroyer   |-> [maxHealth |-> 90,  speed |-> 380, fireRate |-> 250, damage |-> 10],
     cruiser     |-> [maxHealth |-> 180, speed |-> 220, fireRate |-> 500, damage |-> 15],
     battleship  |-> [maxHealth |-> 160, speed |-> 160, fireRate |-> 800, damage |-> 35],
     submarine   |-> [maxHealth |-> 80,  speed |-> 280, fireRate |-> 1500, damage |-> 55],
     carrier     |-> [maxHealth |-> 140, speed |-> 200, fireRate |-> 600, damage |-> 8]]

\* XP_PER_LEVEL[level] of the source (0-based) is XP_PER_LEVEL[level + 1] here.
XP_PER_LEVEL == <<0, 50, 150, 300, 500, 800, 1200, 1700, 2400, 3500>>

NoAbility == [ability |-> "none", cooldown |-> 0, duration |-> 0]

\* null entries of the source are NoAbility.
SHIP_ABILITIES ==
    [patrol_boat |-> NoAbility,
     destroyer   |-> [ability |-> "boost",   cooldown |-> 8000,  duration |-> 2000],
     cruiser     |-> [ability |-> "shield",  cooldown |-> 15000, duration |-> 3000],
     battleship  |-> NoAbility,
     submarine   |-> [ability |-> "stealth", cooldown |-> 12000, duration |-> 4000],
     carrier     |-> [ability |-> "drone",   cooldown |-> 10000, duration |-> 5000]]

\* generateIslands: centre and bounding radius (the outline is render-only).
Islands ==
    << [id |-> 0,  x |-> 500,  y |-> 500,  radius |-> 100],
       [id |-> 1,  x |-> 2500, y |-> 500,  radius |-> 120],
       [id |-> 2,  x |-> 500,  y |-> 2500, radius |-> 110],
       [id |-> 3,  x |-> 2500, y |-> 2500, radius |-> 105],
       [id |-> 4,  x |-> 1500, y |-> 1500, radius |-> 150],
       [id |-> 5,  x |-> 1000, y |-> 800,  radius |-> 75],
       [id |-> 6,  x |-> 2000, y |-> 800,  radius |-> 85],
       [id |-> 7,  x |-> 800,  y |-> 1800, radius |-> 80],
       [id |-> 8,  x |-> 2200, y |-> 2000, radius |-> 90],
       [id |-> 9,  x |-> 1500, y |-> 700,  radius |-> 65],
       [id |-> 10, x |-> 1500, y |-> 2300, radius |-> 70],
       [id |-> 11, x |-> 700,  y |-> 1200, radius |-> 60],
       [id |-> 12, x |-> 2300, y |-> 1200, radius |-> 65] >>

\* ------------------------------------------------------------------------
\* Arithmetic helpers
\* ------------------------------------------------------------------------
Max(a, b) == IF a >= b THEN a ELSE b
Min(a, b) == IF a <= b THEN a ELSE b
Clamp(v, lo, hi) == Max(lo, Min(hi, v))

\* Math.floor(a / b) for b > 0.
FloorDiv(a, b) == a \div b

\* Math.round(a / b) for b > 0: the nearest integer, halves towards +infinity.
RoundDiv(a, b) == (2 * a + b) \div (2 * b)

\* Math.cos / Math.sin of a heading given in degrees (multiples of 180 only).
Cos(deg) == IF (deg % 360) = 0 THEN 1 ELSE -1
Sin(deg) == 0

DistSq(x1, y1, x2, y2) == (x2 - x1) * (x2 - x1) + (y2 - y1) * (y2 - y1)

\* Phaser.Math.Angle.Between = atan2(dy, dx), in degrees, for dy = 0.
AngleBetween(x1, y1, x2, y2) == IF x2 - x1 >= 0 THEN 0 ELSE 180

\* floor(sqrt(n)) for n >= 0.
\* Bisection: lo * lo <= n < hi * hi throughout.
RECURSIVE ISqrtFrom(_, _, _)
ISqrtFrom(n, lo, hi) ==
    IF hi - lo <= 1 THEN lo
    ELSE IF ((lo + hi) \div 2) * ((lo + hi) \div 2) <= n
         THEN ISqrtFrom(n, (lo + hi) \div 2, hi)
         ELSE ISqrtFrom(n, lo, (lo + hi) \div 2)
ISqrt(n) == ISqrtFrom(n, 0, Min(n, 46340) + 1)

\* The value of e, computed once and named x: Only({body : x \in {e}}).
Only(S) == CHOOSE v \in S : TRUE

SeqSum(s) ==
    LET RECURSIVE go(_)
        go(i) == IF i > Len(s) THEN 0 ELSE s[i] + go(i + 1)
    IN go(1)

\* ------------------------------------------------------------------------
\* The world: every operator below takes the world record w and returns the
\* world after the corresponding method has run.
\*   players, bullets, neutrals, drones : the collections, in insertion order
\*   save, leaderboard : localStorage 'navalwar_save' / 'navalwar_leaderboard'
\*   emitted : the notifications emitted by the running handler, in order
\*   hits, aimed, ledger : records of what the handler did (see below)
\* ------------------------------------------------------------------------
NoSave == [present |-> FALSE]
NoLeaderboard == [lastGame |-> <<>>, highScores |-> <<>>]

Emit(w, e) == [w EXCEPT !.emitted = Append(@, e)]

\* Index in w.players of the player with this id, 0 if not registered
\* (players.get / players.has).
PlayerIndex(w, id) ==
    LET S == {i \in 1..Len(w.players) : w.players[i].id = id}
    IN IF S = {} THEN 0 ELSE CHOOSE i \in S : TRUE

NeutralIndex(w, id) ==
    LET S == {i \in 1..Len(w.neutrals) : w.neutrals[i].id = id}
    IN IF S = {} THEN 0 ELSE CHOOSE i \in S : \A j \in S : i <= j

getXPToNextLevel(level) ==
    IF level >= MAX_LEVEL THEN 999999
    ELSE IF level < 0 \/ XP_PER_LEVEL[level + 1] = 0 THEN 9999
    ELSE XP_PER_LEVEL[level + 1]

sendStats(w, i) ==
    LET p == w.players[i]
    IN Emit(w, [type |-> "playerStats", player |-> p.id, stats |-> p.ship.stats,
                upgradePoints |-> p.upgradePoints,
                xpToNextLevel |-> getXPToNextLevel(p.ship.level)])

savePlayerState(w, i) ==
    LET p == w.players[i]
    IN IF p.id # localPlayerId THEN w
       ELSE [w EXCEPT !.save =
                [present |-> TRUE, score |-> p.ship.score, level |-> p.ship.level,
                 xp |-> p.ship.xp, shipClass |-> p.ship.shipClass,
                 stats |-> p.ship.stats, upgradePoints |-> p.upgradePoints]]

\* allPossible.filter(shipClass => level >= SHIP_UNLOCK_LEVELS[shipClass])
AvailableShipClasses(shipClass, level) ==
    SelectSeq(SHIP_UPGRADE_PATHS[shipClass], LAMBDA c : level >= SHIP_UNLOCK_LEVELS[c])

\* awardXP announcing the classes of the level left behind.
awardXP_staleClasses(w, i, amount) ==
    LET p == w.players[i]
        xp1 == p.ship.xp + amount
        xpNeeded == getXPToNextLevel(p.ship.level)
        w1 == [w EXCEPT !.players[i].ship.xp = xp1,
                        !.players[i].ship.score = @ + amount * 10]
        w2 == IF xp1 >= xpNeeded /\ p.ship.level < MAX_LEVEL
              THEN Emit([w1 EXCEPT !.players[i].ship.level = @ + 1,
                                   !.players[i].ship.xp = @ - xpNeeded,
                                   !.players[i].upgradePoints = @ + 1,
                                   !.players[i].ship.health = p.ship.maxHealth],
                        [type |-> "levelUp", player |-> p.id,
                         newLevel |-> p.ship.level + 1,
                         upgradePoints |-> p.upgradePoints + 1,
                         availableShipClasses |->
                             AvailableShipClasses(p.ship.shipClass, p.ship.level)])
              ELSE w1
    IN savePlayerState(sendStats(w2, i), i)

\* awardXP granting an upgrade point with every award.
awardXP_pointPerAward(w, i, amount) ==
    LET p == w.players[i]
        xp1 == p.ship.xp + amount
        xpNeeded == getXPToNextLevel(p.ship.level)
        w1 == [w EXCEPT !.players[i].ship.xp = xp1,
                        !.players[i].upgradePoints = @ + 1,
                        !.players[i].ship.score = @ + amount * 10]
        w2 == IF xp1 >= xpNeeded /\ p.ship.level < MAX_LEVEL
              THEN Emit([w1 EXCEPT !.players[i].ship.level = @ + 1,
                                   !.players[i].ship.xp = @ - xpNeeded,
                                   !.players[i].upgradePoints = @ + 1,
                                   !.players[i].ship.health = p.ship.maxHealth],
                        [type |-> "levelUp", player |-> p.id,
                         newLevel |-> p.ship.level + 1,
                         upgradePoints |-> p.upgradePoints + 1,
                         availableShipClasses |->
                             AvailableShipClasses(p.ship.shipClass, p.ship.level + 1)])
              ELSE w1
    IN savePlayerState(sendStats(w2, i), i)

\* awardXP levelling a ship that is at the cap.
awardXP_capInverted(w, i, amount) ==
    LET p == w.players[i]
        xp1 == p.ship.xp + amount
        xpNeeded == getXPToNextLevel(p.ship.level)
        w1 == [w EXCEPT !.players[i].ship.xp = xp1,
                        !.players[i].ship.score = @ + amount * 10]
        w2 == IF xp1 >= xpNeeded \/ p.ship.level >= MAX_LEVEL
              THEN Emit([w1 EXCEPT !.players[i].ship.level = @ + 1,
                                   !.players[i].ship.xp = @ - Min(xpNeeded, xp1),
                                   !.players[i].upgradePoints = @ + 1,
                                   !.players[i].ship.health = p.ship.maxHealth],
                        [type |-> "levelUp", player |-> p.id,
                         newLevel |-> p.ship.level + 1,
                         upgradePoints |-> p.upgradePoints + 1,
                         availableShipClasses |->
                             AvailableShipClasses(p.ship.shipClass, p.ship.level + 1)])
              ELSE w1
    IN savePlayerState(sendStats(w2, i), i)

awardXP(w, i, amount) ==
    LET p == w.players[i]
        xp1 == p.ship.xp + amount
        xpNeeded == getXPToNextLevel(p.ship.level)
        w1 == [w EXCEPT !.players[i].ship.xp = xp1,
                        !.players[i].ship.score = @ + amount * 10]
        w2 == IF xp1 >= xpNeeded /\ p.ship.level < MAX_LEVEL
              THEN Emit([w1 EXCEPT !.players[i].ship.level = @ + 1,
                                   !.players[i].ship.xp = @ - xpNeeded,
                                   !.players[i].upgradePoints = @ + 1,
                                   !.players[i].ship.health = p.ship.maxHealth],
                        [type |-> "levelUp", player |-> p.id,
                         newLevel |-> p.ship.level + 1,
                         upgradePoints |-> p.upgradePoints + 1,
                         availableShipClasses |->
                             AvailableShipClasses(p.ship.shipClass, p.ship.level + 1)])
              ELSE w1
    IN savePlayerState(sendStats(w2, i), i)

\* recalculateShipStats that raises maxHealth and leaves health as it is.
recalculateShipStats_healthKept(w, i) ==
    LET p == w.players[i]
    IN [w EXCEPT !.players[i].ship.maxHealth =
           SHIP_STATS[p.ship.shipClass].maxHealth + p.ship.stats.healthBonus * 10]

recalculateShipStats(w, i) ==
    LET p == w.players[i]
        oldMax == p.ship.maxHealth
        newMax == SHIP_STATS[p.ship.shipClass].maxHealth + p.ship.stats.healthBonus * 10
        w1 == [w EXCEPT !.players[i].ship.maxHealth = newMax]
    IN IF oldMax > 0
       THEN [w1 EXCEPT !.players[i].ship.health = RoundDiv(p.ship.health * newMax, oldMax)]
       ELSE w1

\* data.highScores.sort((a, b) => b.score - a.score): a stable sort.
RECURSIVE InsertByScore(_, _)
InsertByScore(sorted, e) ==
    IF sorted = <<>> THEN <<e>>
    ELSE IF Head(sorted).score >= e.score
         THEN <<Head(sorted)>> \o InsertByScore(Tail(sorted), e)
         ELSE <<e>> \o sorted

RECURSIVE SortByScore(_)
SortByScore(s) ==
    IF s = <<>> THEN <<>>
    ELSE InsertByScore(SortByScore(SubSeq(s, 1, Len(s) - 1)), s[Len(s)])

\* The entry written without the sort of the high scores.
saveGameResult_unsorted(w, i, now) ==
    LET p == w.players[i]
        entry == [name |-> p.name, score |-> p.ship.score, date |-> now]
        pushed == Append(w.leaderboard.highScores, entry)
    IN [w EXCEPT !.leaderboard =
            [lastGame |-> <<entry>>,
             highScores |-> SubSeq(pushed, 1, Min(10, Len(pushed)))]]

saveGameResult(w, i, now) ==
    LET p == w.players[i]
        entry == [name |-> p.name, score |-> p.ship.score, date |-> now]
        sorted == SortByScore(Append(w.leaderboard.highScores, entry))
    IN [w EXCEPT !.leaderboard =
            [lastGame |-> <<entry>>,
             highScores |-> SubSeq(sorted, 1, Min(10, Len(sorted)))]]

\* handlePlayerDeath without the early return for a dead player.
handlePlayerDeath_unguarded(w, i, killerId, weaponType, now) ==
    LET p == w.players[i]
        w1 == IF p.id = localPlayerId
              THEN [saveGameResult(w, i, now) EXCEPT !.save = NoSave]
              ELSE w
        w2 == [w1 EXCEPT !.players[i].ship.health = 0,
                         !.players[i].isDead = TRUE,
                         !.players[i].deathTime = now]
        k == PlayerIndex(w2, killerId)
        kn == NeutralIndex(w2, killerId)
        killerName ==
            IF k # 0 THEN w2.players[k].name
            ELSE IF kn = 0 THEN "Unknown"
            ELSE IF w2.neutrals[kn].type = "tank" THEN "Island Tank"
            ELSE IF w2.neutrals[kn].type = "lighthouse" THEN "Defense Tower"
            ELSE "Enemy"
        killerWeapon ==
            IF k # 0 THEN w2.players[k].ship.shipClass
            ELSE IF kn # 0 THEN w2.neutrals[kn].type
            ELSE weaponType
        w3 == IF k # 0
              THEN awardXP([w2 EXCEPT !.players[k].ship.kills = @ + 1,
                                      !.players[k].ship.score =
                                          @ + 100 + p.ship.level * 10],
                           k, 100 + p.ship.level * 20)
              ELSE w2
        w4 == Emit(w3, [type |-> "playerDied", killerId |-> killerId,
                        victimId |-> p.id, killerName |-> killerName])
        w5 == Emit(w4, [type |-> "deathTimer", player |-> p.id, deathTime |-> now])
    IN Emit(w5, [type |-> "killFeed", killerName |-> killerName,
                 victimName |-> p.name, weapon |-> killerWeapon])

handlePlayerDeath(w, i, killerId, weaponType, now) ==
    LET p == w.players[i]
        w1 == IF p.id = localPlayerId
              THEN [saveGameResult(w, i, now) EXCEPT !.save = NoSave]
              ELSE w
        w2 == [w1 EXCEPT !.players[i].ship.health = 0,
                         !.players[i].isDead = TRUE,
                         !.players[i].deathTime = now]
        k == PlayerIndex(w2, killerId)
        kn == NeutralIndex(w2, killerId)
        killerName ==
            IF k # 0 THEN w2.players[k].name
            ELSE IF kn = 0 THEN "Unknown"
            ELSE IF w2.neutrals[kn].type = "tank" THEN "Island Tank"
            ELSE IF w2.neutrals[kn].type = "lighthouse" THEN "Defense Tower"
            ELSE "Enemy"
        killerWeapon ==
            IF k # 0 THEN w2.players[k].ship.shipClass
            ELSE IF kn # 0 THEN w2.neutrals[kn].type
            ELSE weaponType
        w3 == IF k # 0
              THEN awardXP([w2 EXCEPT !.players[k].ship.kills = @ + 1,
                                      !.players[k].ship.score =
                                          @ + 100 + p.ship.level * 10],
                           k, 100 + p.ship.level * 20)
              ELSE w2
        w4 == Emit(w3, [type |-> "playerDied", killerId |-> killerId,
                        victimId |-> p.id, killerName |-> killerName])
        w5 == Emit(w4, [type |-> "deathTimer", player |-> p.id, deathTime |-> now])
    IN IF p.isDead THEN w
       ELSE Emit(w5, [type |-> "killFeed", killerName |-> killerName,
                      victimName |-> p.name, weapon |-> killerWeapon])

\* ------------------------------------------------------------------------
\* Request handlers
\* ------------------------------------------------------------------------
\* The row all modelled entities lie on: the one through the centre of island_0.
Row == Islands[1].y

NewPlayer(playerId, playerName, spawnX, now) ==
    [id |-> playerId,
     name |-> IF playerName = "" THEN "Player" ELSE playerName,
     ship |-> [id |-> playerId, x |-> spawnX, y |-> Row, rotation |-> 0,
               velocityX |-> 0, velocityY |-> 0,
               health |-> SHIP_STATS["patrol_boat"].maxHealth,
               maxHealth |-> SHIP_STATS["patrol_boat"].maxHealth,
               level |-> 1, xp |-> 0, shipClass |-> "patrol_boat",
               kills |-> 0, score |-> 0, stats |-> DEFAULT_STATS,
               abilityActive |-> FALSE, abilityCooldown |-> 0,
               isStealthed |-> FALSE, isShielded |-> FALSE],
     lastInput |-> [x |-> spawnX, y |-> Row, rotation |-> 0, thrust |-> FALSE,
                    fire |-> FALSE, useAbility |-> FALSE],
     lastFireTime |-> 0,
     upgradePoints |-> 0,
     isDead |-> FALSE,
     deathTime |-> 0,
     abilityActiveUntil |-> 0,
     abilityCooldownUntil |-> 0,
     spawnProtectionUntil |-> now + SPAWN_PROTECTION_MS]

\* `state.f || d`: d when the stored value is falsy (0 for a number, the
\* empty string for a text; an absent field reads as undefined, falsy too).
OrDefault(v, d) == IF v = 0 THEN d ELSE v

ClassOrDefault(v) == IF v = "" THEN "patrol_boat" ELSE v

\* A parsed record without a stats field.
Absent == [absent |-> TRUE]

StatsOrDefault(v) == IF v = Absent THEN DEFAULT_STATS ELSE v

\* Stored text that JSON.parse rejects.
GarbledSave == [present |-> TRUE, text |-> "{score:"]

Parses(st) == "text" \notin DOMAIN st

\* The body of the try block runs up to the statement that throws: JSON.parse
\* on garbled text (nothing assigned), or `base.maxHealth` in
\* recalculateShipStats when SHIP_STATS has no entry for the loaded class
\* (the six fields are assigned by then); the catch only logs.
loadPlayerState(w, i) ==
    LET st == w.save
        w1 == [w EXCEPT !.players[i].ship.score = OrDefault(st.score, 0),
                        !.players[i].ship.level = OrDefault(st.level, 1),
                        !.players[i].ship.xp = OrDefault(st.xp, 0),
                        !.players[i].ship.shipClass = ClassOrDefault(st.shipClass),
                        !.players[i].ship.stats = StatsOrDefault(st.stats),
                        !.players[i].upgradePoints = OrDefault(st.upgradePoints, 0)]
        w2 == recalculateShipStats(w1, i)
    IN IF ~st.present THEN w
       ELSE IF ~Parses(st) THEN w
       ELSE IF ClassOrDefault(st.shipClass) \notin DOMAIN SHIP_STATS THEN w1
       ELSE [w2 EXCEPT !.players[i].ship.health = w2.players[i].ship.maxHealth]

\* players.set(playerId, player): a known key keeps its place in the iteration order.
handleJoinGame(w, playerId, playerName, spawnX, now) ==
    LET old == PlayerIndex(w, playerId)
        i == IF old = 0 THEN Len(w.players) + 1 ELSE old
        player == NewPlayer(playerId, playerName, spawnX, now)
        w1 == [w EXCEPT !.players =
                  IF old = 0 THEN Append(@, player) ELSE [@ EXCEPT ![old] = player]]
        w2 == loadPlayerState(w1, i)
        w3 == Emit(w2, [type |-> "playerId", player |-> playerId])
        w4 == Emit(w3, [type |-> "worldInit"])
    IN sendStats(w4, i)

handlePlayerInput(w, playerId, input) ==
    LET i == PlayerIndex(w, playerId)
    IN IF i = 0 THEN w ELSE [w EXCEPT !.players[i].lastInput = input]

\* handleUpgradeShipClass without the test of the unlock level.
handleUpgradeShipClass_ungated(w, playerId, shipClass) ==
    LET i == PlayerIndex(w, playerId)
        p == w.players[i]
        newMax == SHIP_STATS[shipClass].maxHealth + p.ship.stats.healthBonus * 10
        w1 == [w EXCEPT !.players[i].ship.shipClass = shipClass,
                        !.players[i].ship.maxHealth = newMax,
                        !.players[i].ship.health = newMax]
    IN IF i = 0 THEN w
       ELSE savePlayerState(sendStats(w1, i), i)

handleUpgradeShipClass(w, playerId, shipClass) ==
    LET i == PlayerIndex(w, playerId)
        p == w.players[i]
        newMax == SHIP_STATS[shipClass].maxHealth + p.ship.stats.healthBonus * 10
        w1 == [w EXCEPT !.players[i].ship.shipClass = shipClass,
                        !.players[i].ship.maxHealth = newMax,
                        !.players[i].ship.health = newMax]
    IN IF i = 0 THEN w
       ELSE IF p.ship.level < SHIP_UNLOCK_LEVELS[shipClass] THEN w
       ELSE savePlayerState(sendStats(w1, i), i)

\* handleUpgradeStat without the test of the upgrade point balance.
handleUpgradeStat_pointsUnchecked(w, playerId, stat) ==
    LET i == PlayerIndex(w, playerId)
        p == w.players[i]
        w1 == [w EXCEPT !.players[i].ship.stats[stat] = @ + 1,
                        !.players[i].upgradePoints = @ - 1]
    IN IF i = 0 THEN w
       ELSE IF p.ship.stats[stat] >= MAX_STAT_POINTS THEN w
       ELSE savePlayerState(sendStats(recalculateShipStats(w1, i), i), i)

\* handleUpgradeStat that raises the stat and leaves the point unspent.
handleUpgradeStat_pointKept(w, playerId, stat) ==
    LET i == PlayerIndex(w, playerId)
        p == w.players[i]
        w1 == [w EXCEPT !.players[i].ship.stats[stat] = @ + 1]
    IN IF i = 0 THEN w
       ELSE IF p.upgradePoints <= 0 THEN w
       ELSE IF p.ship.stats[stat] >= MAX_STAT_POINTS THEN w
       ELSE savePlayerState(sendStats(recalculateShipStats(w1, i), i), i)

handleUpgradeStat(w, playerId, stat) ==
    LET i == PlayerIndex(w, playerId)
        p == w.players[i]
        w1 == [w EXCEPT !.players[i].ship.stats[stat] = @ + 1,
                        !.players[i].upgradePoints = @ - 1]
    IN IF i = 0 THEN w
       ELSE IF p.upgradePoints <= 0 THEN w
       ELSE IF p.ship.stats[stat] >= MAX_STAT_POINTS THEN w
       ELSE savePlayerState(sendStats(recalculateShipStats(w1, i), i), i)

\* handleRespawn that leaves the kill count as it is.
handleRespawn_killsKept(w, playerId, spawnX, now) ==
    LET i == PlayerIndex(w, playerId)
        base == SHIP_STATS["patrol_boat"]
        w1 == [w EXCEPT !.players[i].isDead = FALSE,
                        !.players[i].ship.score = 0,
                        !.players[i].ship.level = 1,
                        !.players[i].ship.xp = 0,
                        !.players[i].ship.shipClass = "patrol_boat",
                        !.players[i].ship.stats = DEFAULT_STATS,
                        !.players[i].upgradePoints = 0,
                        !.players[i].ship.maxHealth = base.maxHealth,
                        !.players[i].ship.health = base.maxHealth,
                        !.players[i].ship.x = spawnX,
                        !.players[i].ship.y = Row,
                        !.players[i].ship.rotation = 0,
                        !.players[i].spawnProtectionUntil = now + SPAWN_PROTECTION_MS]
        w2 == savePlayerState(w1, i)
        w3 == Emit(w2, [type |-> "respawned", player |-> playerId,
                        x |-> spawnX, y |-> Row])
    IN IF i = 0 THEN w ELSE sendStats(w3, i)

handleRespawn(w, playerId, spawnX, now) ==
    LET i == PlayerIndex(w, playerId)
        base == SHIP_STATS["patrol_boat"]
        w1 == [w EXCEPT !.players[i].isDead = FALSE,
                        !.players[i].ship.score = 0,
                        !.players[i].ship.level = 1,
                        !.players[i].ship.xp = 0,
                        !.players[i].ship.shipClass = "patrol_boat",
                        !.players[i].ship.stats = DEFAULT_STATS,
                        !.players[i].upgradePoints = 0,
                        !.players[i].ship.kills = 0,
                        !.players[i].ship.maxHealth = base.maxHealth,
                        !.players[i].ship.health = base.maxHealth,
                        !.players[i].ship.x = spawnX,
                        !.players[i].ship.y = Row,
                        !.players[i].ship.rotation = 0,
                        !.players[i].spawnProtectionUntil = now + SPAWN_PROTECTION_MS]
        w2 == savePlayerState(w1, i)
        w3 == Emit(w2, [type |-> "respawned", player |-> playerId,
                        x |-> spawnX, y |-> Row])
    IN IF i = 0 THEN w ELSE sendStats(w3, i)

\* ------------------------------------------------------------------------
\* Geometry
\* ------------------------------------------------------------------------
\* Distance travelled in one tick (dt = TICK_INTERVAL / 1000 s) at v pixels per second.
PerTick(v) == (v * TICK_INTERVAL) \div 1000

NoHit == [hit |-> FALSE, num |-> 0, den |-> 1]

\* The hit parameter t = num / den (the square root is taken to the whole pixel);
\* the range tests 0 <= t <= 1 are decided exactly, on the squares.
getFirstSegmentCircleHitT(ax, ay, bx, by, cx, cy, r) ==
    LET dx == bx - ax
        dy == by - ay
        a == dx * dx + dy * dy
        fx == ax - cx
        fy == ay - cy
        b == 2 * (fx * dx + fy * dy)
        c == (fx * fx + fy * fy) - r * r
        disc == b * b - 4 * a * c
        s == ISqrt(disc)
        t1in == /\ (b <= 0 /\ disc <= b * b)
                /\ ((0 - b) - 2 * a <= 0 \/ disc >= (b + 2 * a) * (b + 2 * a))
        t2in == /\ (b <= 0 \/ disc >= b * b)
                /\ (2 * a + b >= 0 /\ disc <= (2 * a + b) * (2 * a + b))
        \* the circle's bounding box misses the segment's: no root lies in [0, 1]
        apart == \/ cx + r < Min(ax, bx) \/ cx - r > Max(ax, bx)
                 \/ cy + r < Min(ay, by) \/ cy - r > Max(ay, by)
    IN IF a <= 0 THEN NoHit
       ELSE IF apart THEN NoHit
       ELSE IF disc < 0 THEN NoHit
       ELSE IF t1in THEN [hit |-> TRUE, num |-> (0 - b) - s, den |-> 2 * a]
       ELSE IF t2in THEN [hit |-> TRUE, num |-> (0 - b) + s, den |-> 2 * a]
       ELSE NoHit

isPointInIsland(px, py, island) ==
    DistSq(island.x, island.y, px, py) < island.radius * island.radius

\* Positions are whole pixels: the projection to distance expanded + 0.01 is
\* rounded outwards to expanded + 1.
ProjectOut(island, nx, ny, len, expanded) ==
    [x |-> island.x + RoundDiv(nx * (expanded + 1), len),
     y |-> island.y + RoundDiv(ny * (expanded + 1), len)]

clampEntityOutsideIslandAlongSegment(prevX, prevY, nextX, nextY, entityRadius, island) ==
    LET expanded == island.radius + entityRadius
        endDx == nextX - island.x
        endDy == nextY - island.y
        endDistSq == endDx * endDx + endDy * endDy
        mvx == nextX - prevX
        mvy == nextY - prevY
        mvLen == Max(1, ISqrt(mvx * mvx + mvy * mvy))
    IN IF endDistSq < expanded * expanded
       THEN IF endDistSq > 0
            THEN ProjectOut(island, endDx, endDy, Max(1, ISqrt(endDistSq)), expanded)
            ELSE ProjectOut(island, mvx, mvy, mvLen, expanded)
       ELSE Only({
              LET hitX == prevX + RoundDiv((nextX - prevX) * t.num, t.den)
                  hitY == prevY + RoundDiv((nextY - prevY) * t.num, t.den)
                  nx == hitX - island.x
                  ny == hitY - island.y
                  len == Max(1, ISqrt(nx * nx + ny * ny))
              IN IF ~t.hit THEN [x |-> nextX, y |-> nextY]
                 ELSE ProjectOut(island, nx, ny, len, expanded)
              : t \in {getFirstSegmentCircleHitT(prevX, prevY, nextX, nextY,
                                                 island.x, island.y, expanded)} })

\* for (const island of this.islands) { swept = clamp(prev, ship, ...); ship = swept }
\* (the islands k..Len(Islands) in order; the span is halved to keep the
\* evaluation shallow)
ClampAllIslands(k, prevX, prevY, at, entityRadius) ==
    LET RECURSIVE span(_, _, _)
        span(p, lo, hi) ==
            IF lo > hi THEN p
            ELSE IF lo = hi
                 THEN clampEntityOutsideIslandAlongSegment(
                          prevX, prevY, p.x, p.y, entityRadius, Islands[lo])
            ELSE Only({ span(p1, (lo + hi) \div 2 + 1, hi)
                        : p1 \in {span(p, lo, (lo + hi) \div 2)} })
    IN span(at, k, Len(Islands))

\* ------------------------------------------------------------------------
\* Tick, phase 2: players
\* ------------------------------------------------------------------------
\* spawnBullet that names the bullet after the counter and leaves it as it is.
spawnBullet_counterKept(w, i) ==
    LET p == w.players[i]
        angle == p.ship.rotation
    IN [w EXCEPT
          !.bullets = Append(@,
              [id |-> <<"bullet", w.bulletIdCounter>>,
               ownerId |-> p.id,
               x |-> p.ship.x + Cos(angle) * 30,
               y |-> p.ship.y + Sin(angle) * 30,
               velocityX |-> Cos(angle) * PLAYER_BULLET_SPEED,
               velocityY |-> Sin(angle) * PLAYER_BULLET_SPEED,
               damage |-> SHIP_STATS[p.ship.shipClass].damage
                              + p.ship.stats.damageBonus * 2,
               lifetime |-> PLAYER_BULLET_LIFETIME,
               type |-> "cannon",
               ignoreTerrain |-> TRUE])]

spawnBullet(w, i) ==
    LET p == w.players[i]
        angle == p.ship.rotation
    IN [w EXCEPT
          !.bullets = Append(@,
              [id |-> <<"bullet", w.bulletIdCounter>>,
               ownerId |-> p.id,
               x |-> p.ship.x + Cos(angle) * 30,
               y |-> p.ship.y + Sin(angle) * 30,
               velocityX |-> Cos(angle) * PLAYER_BULLET_SPEED,
               velocityY |-> Sin(angle) * PLAYER_BULLET_SPEED,
               damage |-> SHIP_STATS[p.ship.shipClass].damage
                              + p.ship.stats.damageBonus * 2,
               lifetime |-> PLAYER_BULLET_LIFETIME,
               type |-> "cannon",
               ignoreTerrain |-> TRUE]),
          !.bulletIdCounter = @ + 1]

spawnDrone(w, i) ==
    LET p == w.players[i]
    IN [w EXCEPT
          !.drones = Append(@,
              [id |-> <<"drone", w.droneIdCounter>>, ownerId |-> p.id,
               x |-> p.ship.x, y |-> p.ship.y, rotation |-> p.ship.rotation,
               health |-> 30, lifetime |-> DRONE_LIFETIME]),
          !.droneIdCounter = @ + 1]

updateAbility(w, i, now) ==
    LET p == w.players[i]
        cfg == SHIP_ABILITIES[p.ship.shipClass]
        w1 == [w EXCEPT !.players[i].ship.abilityCooldown =
                            Max(0, p.abilityCooldownUntil - now)]
        w2 == IF p.abilityActiveUntil > 0 /\ now >= p.abilityActiveUntil
              THEN [w1 EXCEPT !.players[i].ship.abilityActive = FALSE,
                              !.players[i].ship.isStealthed = FALSE,
                              !.players[i].ship.isShielded = FALSE,
                              !.players[i].abilityActiveUntil = 0]
              ELSE w1
        q == w2.players[i]
        w3 == [w2 EXCEPT !.players[i].ship.abilityActive = TRUE,
                         !.players[i].abilityActiveUntil = now + cfg.duration,
                         !.players[i].abilityCooldownUntil = now + cfg.cooldown,
                         !.players[i].ship.isStealthed =
                             IF cfg.ability = "stealth" THEN TRUE ELSE @,
                         !.players[i].ship.isShielded =
                             IF cfg.ability = "shield" THEN TRUE ELSE @]
    IN IF cfg.ability = "none" THEN w
       ELSE IF p.lastInput.useAbility /\ now >= q.abilityCooldownUntil
               /\ ~q.ship.abilityActive
            THEN IF cfg.ability = "drone" THEN spawnDrone(w3, i) ELSE w3
            ELSE w2

updatePlayer(w, i, now) ==
    LET p == w.players[i]
        shipStats == SHIP_STATS[p.ship.shipClass]
        bx == Clamp(p.lastInput.x, 30, WORLD_WIDTH - 30)
        by == Clamp(p.lastInput.y, 30, WORLD_HEIGHT - 30)
        fireCooldown == Max(100, shipStats.fireRate - p.ship.stats.reloadBonus * 50)
        fires == p.lastInput.fire /\ now - p.lastFireTime > fireCooldown
    IN IF p.isDead THEN w
       ELSE Only({
              updateAbility(
                  IF fires
                  THEN [spawnBullet(w1, i) EXCEPT !.players[i].lastFireTime = now]
                  ELSE w1, i, now)
              : w1 \in {Only({
                    [w EXCEPT !.players[i].ship.rotation = p.lastInput.rotation,
                              !.players[i].ship.x = pos.x,
                              !.players[i].ship.y = pos.y]
                    : pos \in {ClampAllIslands(1, p.ship.x, p.ship.y,
                                               [x |-> bx, y |-> by], SHIP_RADIUS)} })} })

RECURSIVE updatePlayersFrom(_, _, _)
updatePlayersFrom(w, i, now) ==
    IF i > Len(w.players) THEN w
    ELSE updatePlayersFrom(updatePlayer(w, i, now), i + 1, now)

updatePlayers(w, now) == updatePlayersFrom(w, 1, now)

\* ------------------------------------------------------------------------
\* Records of what a handler did (not state of the program):
\*   w.hits   : one entry per health reduction or blocked hit, in order
\*   w.aimed  : one entry per turret shot, with the player it was aimed at
\*   w.ledger : per neutral id, the blows it has taken and the XP paid for it
\* ------------------------------------------------------------------------
LogHit(w, h) == [w EXCEPT !.hits = Append(@, h)]

LedgerEntry(w, n) ==
    IF n.id \in DOMAIN w.ledger THEN w.ledger[n.id]
    ELSE [type |-> n.type, xpValue |-> n.xpValue, blows |-> <<>>, xp |-> 0]

LedgerBlow(w, n, ownerId, damage, xp) ==
    LET e == LedgerEntry(w, n)
        e1 == [e EXCEPT !.blows = Append(@, [owner |-> ownerId, damage |-> damage]),
                        !.xp = @ + xp]
    IN [w EXCEPT !.ledger = [k \in (DOMAIN @) \cup {n.id} |->
                                IF k = n.id THEN e1 ELSE @[k]]]

\* ------------------------------------------------------------------------
\* Tick, phase 1: neutral spawn
\* ------------------------------------------------------------------------
NeutralHealth(type) == IF type = "buoy" THEN 25 ELSE IF type = "cargo" THEN 60 ELSE 120
NeutralXP(type) == IF type = "buoy" THEN 8 ELSE IF type = "cargo" THEN 25 ELSE 60

\* The position test of one spawn attempt.
SpawnPositionValid(x, y) ==
    \A k \in 1..Len(Islands) :
        DistSq(x, y, Islands[k].x, Islands[k].y)
            >= (Islands[k].radius + 80) * (Islands[k].radius + 80)

\* spawnNeutral without the population test.
spawnNeutral_uncapped(w, r) ==
    LET rotation == IF r.type = "cargo" THEN r.rotation ELSE 0
    IN IF ~r.valid THEN w
       ELSE [w EXCEPT
               !.neutrals = Append(@,
                   [id |-> <<r.type, w.neutralIdCounter>>,
                    x |-> r.x, y |-> r.y, type |-> r.type,
                    health |-> NeutralHealth(r.type),
                    maxHealth |-> NeutralHealth(r.type),
                    xpValue |-> NeutralXP(r.type),
                    rotation |-> rotation,
                    velocityX |-> IF r.type = "cargo"
                                  THEN Cos(rotation) * CARGO_SPEED ELSE 0,
                    velocityY |-> IF r.type = "cargo"
                                  THEN Sin(rotation) * CARGO_SPEED ELSE 0,
                    lastFireTime |-> 0]),
               !.neutralIdCounter = @ + 1]

\* r is the outcome of the random draws: the type, whether some attempt found
\* a valid position, that position and (for cargo) the heading.
spawnNeutral(w, r) ==
    LET rotation == IF r.type = "cargo" THEN r.rotation ELSE 0
    IN IF Len(w.neutrals) >= MAX_NEUTRALS THEN w
       ELSE IF ~r.valid THEN w
       ELSE [w EXCEPT
               !.neutrals = Append(@,
                   [id |-> <<r.type, w.neutralIdCounter>>,
                    x |-> r.x, y |-> r.y, type |-> r.type,
                    health |-> NeutralHealth(r.type),
                    maxHealth |-> NeutralHealth(r.type),
                    xpValue |-> NeutralXP(r.type),
                    rotation |-> rotation,
                    velocityX |-> IF r.type = "cargo"
                                  THEN Cos(rotation) * CARGO_SPEED ELSE 0,
                    velocityY |-> IF r.type = "cargo"
                                  THEN Sin(rotation) * CARGO_SPEED ELSE 0,
                    lastFireTime |-> 0]),
               !.neutralIdCounter = @ + 1]

\* One island of spawnTanks on which the draw came out below 0.5.
spawnTank(w, island) ==
    [w EXCEPT
       !.neutrals = Append(@,
           [id |-> <<"neutral", w.neutralIdCounter>>,
            x |-> island.x, y |-> island.y, type |-> "tank",
            health |-> 120, maxHealth |-> 120, xpValue |-> 250,
            rotation |-> 0, velocityX |-> 0, velocityY |-> 0,
            lastFireTime |-> 0]),
       !.neutralIdCounter = @ + 1]

\* ------------------------------------------------------------------------
\* Tick, phase 3: neutrals
\* ------------------------------------------------------------------------
spawnNeutralBullet(w, ni, ti) ==
    LET source == w.neutrals[ni]
        target == w.players[ti]
        angle == AngleBetween(source.x, source.y, target.ship.x, target.ship.y)
        offset == IF source.type = "tank" THEN 40 ELSE 50
    IN [w EXCEPT
          !.bullets = Append(@,
              [id |-> <<"bullet", w.bulletIdCounter>>,
               ownerId |-> source.id,
               x |-> source.x + Cos(angle) * offset,
               y |-> source.y + Sin(angle) * offset,
               velocityX |-> Cos(angle) * NEUTRAL_BULLET_SPEED,
               velocityY |-> Sin(angle) * NEUTRAL_BULLET_SPEED,
               damage |-> IF source.type = "lighthouse"
                          THEN LIGHTHOUSE_DAMAGE ELSE TANK_DAMAGE,
               lifetime |-> NEUTRAL_BULLET_LIFETIME,
               type |-> "cannon",
               ignoreTerrain |-> (source.type = "tank")]),
          !.bulletIdCounter = @ + 1]

\* The cargo island loop: every island in turn, against the same prev.  The
\* random jitter added to the bounce heading is taken as 0.
RECURSIVE CargoIslands(_, _, _, _)
CargoIslands(n, k, prevX, prevY) ==
    IF k > Len(Islands) THEN n
    ELSE LET rot == n.rotation + 180
         IN Only({ CargoIslands(
                       IF swept.x # n.x \/ swept.y # n.y
                       THEN [n EXCEPT !.x = swept.x, !.y = swept.y, !.rotation = rot,
                                      !.velocityX = Cos(rot) * CARGO_SPEED,
                                      !.velocityY = Sin(rot) * CARGO_SPEED]
                       ELSE n,
                       k + 1, prevX, prevY)
                   : swept \in {clampEntityOutsideIslandAlongSegment(
                                    prevX, prevY, n.x, n.y, 30, Islands[k])} })

moveCargo(n) ==
    LET x1 == n.x + PerTick(n.velocityX)
        y1 == n.y + PerTick(n.velocityY)
        n1 == [n EXCEPT !.x = x1, !.y = y1]
        n2 == IF x1 < 50 \/ x1 > WORLD_WIDTH - 50
              THEN [n1 EXCEPT !.x = Clamp(x1, 50, WORLD_WIDTH - 50),
                              !.rotation = 180 - n1.rotation,
                              !.velocityX = Cos(180 - n1.rotation) * CARGO_SPEED]
              ELSE n1
        n3 == IF y1 < 50 \/ y1 > WORLD_HEIGHT - 50
              THEN [n2 EXCEPT !.y = Clamp(y1, 50, WORLD_HEIGHT - 50),
                              !.rotation = 0 - n2.rotation,
                              !.velocityY = Sin(0 - n2.rotation) * CARGO_SPEED]
              ELSE n2
    IN CargoIslands(n3, 1, n.x, n.y)

\* The nearest-player scan of a turret: best is the index of the target so far
\* (0: none) and minSq the square of minDist.
RECURSIVE NearestTarget(_, _, _, _, _, _)
NearestTarget(w, n, now, i, best, minSq) ==
    IF i > Len(w.players) THEN best
    ELSE LET p == w.players[i]
             dSq == DistSq(n.x, n.y, p.ship.x, p.ship.y)
         IN IF p.isDead \/ p.ship.isStealthed THEN
                NearestTarget(w, n, now, i + 1, best, minSq)
            ELSE IF now < p.spawnProtectionUntil THEN
                NearestTarget(w, n, now, i + 1, best, minSq)
            ELSE IF dSq < minSq THEN NearestTarget(w, n, now, i + 1, i, dSq)
            ELSE NearestTarget(w, n, now, i + 1, best, minSq)

\* updateTurret without the fire-rate test.
updateTurret_noCooldown(w1, ni, now) ==
    LET n == w1.neutrals[ni]
        range == IF n.type = "lighthouse" THEN LIGHTHOUSE_RANGE ELSE TANK_RANGE
        target == NearestTarget(w1, n, now, 1, 0, range * range)
        w2 == IF n.type = "tank"
              THEN [w1 EXCEPT !.neutrals[ni].rotation =
                       AngleBetween(n.x, n.y, w1.players[target].ship.x,
                                    w1.players[target].ship.y)]
              ELSE w1
        w3 == [spawnNeutralBullet(w2, ni, target) EXCEPT
                  !.neutrals[ni].lastFireTime = now,
                  !.aimed = Append(@, [neutral |-> n.id,
                                       target |-> w1.players[target].id])]
    IN IF n.type \notin {"lighthouse", "tank"} THEN w1
       ELSE IF target = 0 THEN w1
       ELSE w3

\* The turret part of the loop body, on the world w1 the cargo part leaves.
updateTurret(w1, ni, now) ==
    LET n == w1.neutrals[ni]
        fireRate == IF n.type = "lighthouse" THEN LIGHTHOUSE_FIRE_RATE ELSE TANK_FIRE_RATE
        range == IF n.type = "lighthouse" THEN LIGHTHOUSE_RANGE ELSE TANK_RANGE
        target == NearestTarget(w1, n, now, 1, 0, range * range)
        w2 == IF n.type = "tank"
              THEN [w1 EXCEPT !.neutrals[ni].rotation =
                       AngleBetween(n.x, n.y, w1.players[target].ship.x,
                                    w1.players[target].ship.y)]
              ELSE w1
        w3 == [spawnNeutralBullet(w2, ni, target) EXCEPT
                  !.neutrals[ni].lastFireTime = now,
                  !.aimed = Append(@, [neutral |-> n.id,
                                       target |-> w1.players[target].id])]
    IN IF n.type \notin {"lighthouse", "tank"} THEN w1
       ELSE IF ~(n.lastFireTime = 0 \/ now - n.lastFireTime > fireRate) THEN w1
       ELSE IF target = 0 THEN w1
       ELSE w3

updateNeutral(w, ni, now) ==
    LET n0 == w.neutrals[ni]
    IN updateTurret(IF n0.type = "cargo"
                    THEN [w EXCEPT !.neutrals[ni] = moveCargo(n0)] ELSE w,
                    ni, now)

\* The loop body for the neutrals ni..Len(w.neutrals), in order (the span is
\* halved to keep the evaluation shallow; the loop removes no neutral).
updateNeutralsFrom(w, ni, now) ==
    LET RECURSIVE span(_, _, _)
        span(v, lo, hi) ==
            IF lo > hi THEN v
            ELSE IF lo = hi THEN updateNeutral(v, lo, now)
            ELSE Only({ span(v1, (lo + hi) \div 2 + 1, hi)
                        : v1 \in {span(v, lo, (lo + hi) \div 2)} })
    IN span(w, ni, Len(w.neutrals))

updateNeutrals(w, now) == updateNeutralsFrom(w, 1, now)

\* ------------------------------------------------------------------------
\* Tick, phase 4: drones
\* ------------------------------------------------------------------------
RemoveAt(s, i) == SubSeq(s, 1, i - 1) \o SubSeq(s, i + 1, Len(s))

\* The attackerId updateDrones passes to damageNeutral: the literal 'drone'.
DroneAttackerId == <<"drone", -1>>

damageNeutral(w, ni, damage, attackerId) ==
    LET n == w.neutrals[ni]
        h == n.health - damage
        k == PlayerIndex(w, attackerId)
        lethal == h <= 0
        paid == IF lethal /\ k # 0 THEN n.xpValue ELSE 0
        w1 == Emit([w EXCEPT !.neutrals[ni].health = h],
                   [type |-> "damageDealt", x |-> n.x, y |-> n.y,
                    damage |-> damage, isCritical |-> FALSE])
        w2 == LedgerBlow(LogHit(w1, [via |-> "homing", by |-> attackerId,
                                     owner |-> attackerId, targetKind |-> "neutral",
                                     target |-> n.id, damage |-> damage,
                                     shielded |-> FALSE, before |-> n.health,
                                     after |-> h, died |-> lethal, xp |-> paid]),
                         n, attackerId, damage, paid)
        w3 == [w2 EXCEPT !.neutrals = RemoveAt(@, ni)]
    IN IF ~lethal THEN w2
       ELSE IF k = 0 THEN w3
       ELSE Emit(awardXP(w3, k, n.xpValue),
                 [type |-> "xpGained", x |-> n.x, y |-> n.y, amount |-> n.xpValue])

\* The nearest-neutral scan of a drone (0: none).
RECURSIVE NearestNeutral(_, _, _, _, _)
NearestNeutral(w, d, ni, best, minSq) ==
    IF ni > Len(w.neutrals) THEN [index |-> best, distSq |-> minSq]
    ELSE LET n == w.neutrals[ni]
             dSq == DistSq(d.x, d.y, n.x, n.y)
         IN IF dSq < DRONE_RANGE * DRONE_RANGE /\ dSq < minSq
            THEN NearestNeutral(w, d, ni + 1, ni, dSq)
            ELSE NearestNeutral(w, d, ni + 1, best, minSq)

updateDrone(w, di) ==
    LET d0 == w.drones[di]
        d == [d0 EXCEPT !.lifetime = @ - TICK_INTERVAL]
        near == NearestNeutral(w, d, 1, 0, 9999 * 9999)
        target == w.neutrals[near.index]
        angle == AngleBetween(d.x, d.y, target.x, target.y)
        homed == [d EXCEPT !.rotation = angle,
                           !.x = @ + PerTick(Cos(angle) * DRONE_SPEED),
                           !.y = @ + PerTick(Sin(angle) * DRONE_SPEED)]
        ahead == [d EXCEPT !.x = @ + PerTick(Cos(d.rotation) * DRONE_SPEED),
                           !.y = @ + PerTick(Sin(d.rotation) * DRONE_SPEED)]
    IN IF d.lifetime <= 0 THEN [w EXCEPT !.drones = RemoveAt(@, di)]
       ELSE IF near.index = 0 THEN [w EXCEPT !.drones[di] = ahead]
       ELSE IF near.distSq < 20 * 20
            THEN [damageNeutral(w, near.index, DRONE_DAMAGE, DroneAttackerId)
                     EXCEPT !.drones = RemoveAt(@, di)]
            ELSE [w EXCEPT !.drones[di] = homed]

\* for (let i = this.drones.length - 1; i >= 0; i--)
RECURSIVE updateDronesFrom(_, _)
updateDronesFrom(w, di) ==
    IF di < 1 THEN w ELSE updateDronesFrom(updateDrone(w, di), di - 1)

updateDrones(w) == updateDronesFrom(w, Len(w.drones))

\* ------------------------------------------------------------------------
\* Tick, phase 5: bullets
\* ------------------------------------------------------------------------
BulletHitsTerrain(b, prevX, prevY) ==
    \E k \in 1..Len(Islands) :
        \/ getFirstSegmentCircleHitT(prevX, prevY, b.x, b.y, Islands[k].x, Islands[k].y,
                                     Islands[k].radius + BULLET_RADIUS).hit
        \/ isPointInIsland(b.x, b.y, Islands[k])

\* moveBullet with the lifetime left alone.
moveBullet_lifetimeKept(b) ==
    [b EXCEPT !.x = @ + PerTick(b.velocityX),
              !.y = @ + PerTick(b.velocityY)]

moveBullet(b) ==
    [b EXCEPT !.x = @ + PerTick(b.velocityX),
              !.y = @ + PerTick(b.velocityY),
              !.lifetime = @ - TICK_INTERVAL]

BulletSurvives(b0) ==
    LET b == moveBullet(b0)
    IN /\ ~(b.lifetime <= 0 \/ b.x < 0 \/ b.x > WORLD_WIDTH \/ b.y < 0 \/ b.y > WORLD_HEIGHT)
       /\ (b.ignoreTerrain \/ ~BulletHitsTerrain(b, b0.x, b0.y))

RECURSIVE updateBulletSeq(_)
updateBulletSeq(bs) ==
    IF bs = <<>> THEN <<>>
    ELSE IF BulletSurvives(Head(bs))
         THEN <<moveBullet(Head(bs))>> \o updateBulletSeq(Tail(bs))
         ELSE updateBulletSeq(Tail(bs))

updateBullets(w) == [w EXCEPT !.bullets = updateBulletSeq(@)]

\* ------------------------------------------------------------------------
\* SpatialHashGrid: the buckets as the sequence of <<key, value>> insertions
\* ------------------------------------------------------------------------
\* ((((cx & 0xffff) << 16) | (cy & 0xffff)) >>> 0): an unsigned 32-bit number,
\* kept as its two 16-bit halves.
GridKey(cx, cy) == <<cx % 65536, cy % 65536>>

GridInsert(grid, x, y, value) ==
    Append(grid, [key |-> GridKey(FloorDiv(x, GRID_CELL_SIZE), FloorDiv(y, GRID_CELL_SIZE)),
                  value |-> value])

Bucket(grid, key) ==
    LET held == SelectSeq(grid, LAMBDA e : e.key = key)
    IN [i \in 1..Len(held) |-> held[i].value]

\* for cy in minCy..maxCy, for cx in minCx..maxCx: append the bucket of (cx, cy).
GridQuery(grid, x, y, range) ==
    LET r == Max(0, range)
        minCx == FloorDiv(x - r, GRID_CELL_SIZE)
        maxCx == FloorDiv(x + r, GRID_CELL_SIZE)
        minCy == FloorDiv(y - r, GRID_CELL_SIZE)
        maxCy == FloorDiv(y + r, GRID_CELL_SIZE)
        RECURSIVE cells(_, _)
        cells(cx, cy) ==
            IF cy > maxCy THEN <<>>
            ELSE IF cx > maxCx THEN cells(minCx, cy + 1)
            ELSE Bucket(grid, GridKey(cx, cy)) \o cells(cx + 1, cy)
    IN cells(minCx, minCy)

\* Indices of the living players, in iteration order of the players map.
LivingPlayers(w) ==
    SelectSeq([i \in 1..Len(w.players) |-> i], LAMBDA i : ~w.players[i].isDead)

ShipGrid(w) ==
    LET living == LivingPlayers(w)
        RECURSIVE go(_, _)
        go(k, g) == IF k > Len(living) THEN g
                    ELSE go(k + 1, GridInsert(g, w.players[living[k]].ship.x,
                                              w.players[living[k]].ship.y, living[k]))
    IN go(1, <<>>)

\* The neutral grid holds the neutrals themselves, by id.
NeutralGrid(w) ==
    [k \in 1..Len(w.neutrals) |->
        GridInsert(<<>>, w.neutrals[k].x, w.neutrals[k].y, w.neutrals[k].id)[1]]

getNeutralRadius(type) ==
    IF type = "buoy" THEN 15
    ELSE IF type = "cargo" THEN 30
    ELSE IF type = "lighthouse" THEN 25
    ELSE 20

\* ------------------------------------------------------------------------
\* Tick, phase 6: collisions
\* ------------------------------------------------------------------------
\* The candidate loop of one bullet in checkBulletShipCollisions, from the
\* j-th candidate on.
RECURSIVE bulletVsShips(_, _, _, _, _)
\* The candidate loop without the spawn protection test.
bulletVsShips_hitsProtected(w, b, cands, j, now) ==
    IF j > Len(cands) THEN w
    ELSE
      LET i == cands[j]
          p == w.players[i]
          hitDistance == SHIP_RADIUS + BULLET_RADIUS
          marked == [w EXCEPT !.bulletsToRemove = @ \cup {b.id}]
          blocked ==
              LogHit(Emit(marked, [type |-> "damageDealt", x |-> p.ship.x,
                                   y |-> p.ship.y, damage |-> 0,
                                   isCritical |-> FALSE]),
                     [via |-> "bullet", by |-> b.id, owner |-> b.ownerId,
                      targetKind |-> "ship", target |-> p.id, damage |-> 0,
                      shielded |-> TRUE, before |-> p.ship.health,
                      after |-> p.ship.health, died |-> FALSE, xp |-> 0])
          h == p.ship.health - b.damage
          struck ==
              LogHit(Emit([marked EXCEPT !.players[i].ship.health = h],
                          [type |-> "damageDealt", x |-> p.ship.x, y |-> p.ship.y,
                           damage |-> b.damage, isCritical |-> (b.damage >= 30)]),
                     [via |-> "bullet", by |-> b.id, owner |-> b.ownerId,
                      targetKind |-> "ship", target |-> p.id, damage |-> b.damage,
                      shielded |-> FALSE, before |-> p.ship.health,
                      after |-> h, died |-> (h <= 0), xp |-> 0])
      IN IF b.ownerId = p.id THEN bulletVsShips(w, b, cands, j + 1, now)
         ELSE IF p.isDead THEN bulletVsShips(w, b, cands, j + 1, now)
         ELSE IF p.ship.isStealthed THEN bulletVsShips(w, b, cands, j + 1, now)
         ELSE IF ~(DistSq(p.ship.x, p.ship.y, b.x, b.y) < hitDistance * hitDistance)
              THEN bulletVsShips(w, b, cands, j + 1, now)
         ELSE IF p.ship.isShielded THEN bulletVsShips(blocked, b, cands, j + 1, now)
         ELSE IF h <= 0 THEN handlePlayerDeath(struck, i, b.ownerId, b.type, now)
         ELSE struck

\* The candidate loop with a shield that reports damage 0 and lets it through.
bulletVsShips_shieldLeaks(w, b, cands, j, now) ==
    IF j > Len(cands) THEN w
    ELSE
      LET i == cands[j]
          p == w.players[i]
          hitDistance == SHIP_RADIUS + BULLET_RADIUS
          marked == [w EXCEPT !.bulletsToRemove = @ \cup {b.id}]
          blocked ==
              LogHit(Emit(marked, [type |-> "damageDealt", x |-> p.ship.x,
                                   y |-> p.ship.y, damage |-> 0,
                                   isCritical |-> FALSE]),
                     [via |-> "bullet", by |-> b.id, owner |-> b.ownerId,
                      targetKind |-> "ship", target |-> p.id, damage |-> 0,
                      shielded |-> TRUE, before |-> p.ship.health,
                      after |-> p.ship.health, died |-> FALSE, xp |-> 0])
          h == p.ship.health - b.damage
          struck ==
              LogHit(Emit([marked EXCEPT !.players[i].ship.health = h],
                          [type |-> "damageDealt", x |-> p.ship.x, y |-> p.ship.y,
                           damage |-> b.damage, isCritical |-> (b.damage >= 30)]),
                     [via |-> "bullet", by |-> b.id, owner |-> b.ownerId,
                      targetKind |-> "ship", target |-> p.id, damage |-> b.damage,
                      shielded |-> FALSE, before |-> p.ship.health,
                      after |-> h, died |-> (h <= 0), xp |-> 0])
      IN IF b.ownerId = p.id THEN bulletVsShips(w, b, cands, j + 1, now)
         ELSE IF p.isDead THEN bulletVsShips(w, b, cands, j + 1, now)
         ELSE IF p.ship.isStealthed THEN bulletVsShips(w, b, cands, j + 1, now)
         ELSE IF now < p.spawnProtectionUntil THEN bulletVsShips(w, b, cands, j + 1, now)
         ELSE IF ~(DistSq(p.ship.x, p.ship.y, b.x, b.y) < hitDistance * hitDistance)
              THEN bulletVsShips(w, b, cands, j + 1, now)
         ELSE IF p.ship.isShielded
              THEN bulletVsShips(
                       [blocked EXCEPT !.players[i].ship.health = h,
                                       !.hits = [@ EXCEPT ![Len(blocked.hits)].after = h]],
                       b, cands, j + 1, now)
         ELSE IF h <= 0 THEN handlePlayerDeath(struck, i, b.ownerId, b.type, now)
         ELSE struck

bulletVsShips(w, b, cands, j, now) ==
    IF j > Len(cands) THEN w
    ELSE
      LET i == cands[j]
          p == w.players[i]
          hitDistance == SHIP_RADIUS + BULLET_RADIUS
          marked == [w EXCEPT !.bulletsToRemove = @ \cup {b.id}]
          blocked ==
              LogHit(Emit(marked, [type |-> "damageDealt", x |-> p.ship.x,
                                   y |-> p.ship.y, damage |-> 0,
                                   isCritical |-> FALSE]),
                     [via |-> "bullet", by |-> b.id, owner |-> b.ownerId,
                      targetKind |-> "ship", target |-> p.id, damage |-> 0,
                      shielded |-> TRUE, before |-> p.ship.health,
                      after |-> p.ship.health, died |-> FALSE, xp |-> 0])
          h == p.ship.health - b.damage
          struck ==
              LogHit(Emit([marked EXCEPT !.players[i].ship.health = h],
                          [type |-> "damageDealt", x |-> p.ship.x, y |-> p.ship.y,
                           damage |-> b.damage, isCritical |-> (b.damage >= 30)]),
                     [via |-> "bullet", by |-> b.id, owner |-> b.ownerId,
                      targetKind |-> "ship", target |-> p.id, damage |-> b.damage,
                      shielded |-> FALSE, before |-> p.ship.health,
                      after |-> h, died |-> (h <= 0), xp |-> 0])
      IN IF b.ownerId = p.id THEN bulletVsShips(w, b, cands, j + 1, now)
         ELSE IF p.isDead THEN bulletVsShips(w, b, cands, j + 1, now)
         ELSE IF p.ship.isStealthed THEN bulletVsShips(w, b, cands, j + 1, now)
         ELSE IF now < p.spawnProtectionUntil THEN bulletVsShips(w, b, cands, j + 1, now)
         ELSE IF ~(DistSq(p.ship.x, p.ship.y, b.x, b.y) < hitDistance * hitDistance)
              THEN bulletVsShips(w, b, cands, j + 1, now)
         ELSE IF p.ship.isShielded THEN bulletVsShips(blocked, b, cands, j + 1, now)
         ELSE IF h <= 0 THEN handlePlayerDeath(struck, i, b.ownerId, b.type, now)
         ELSE struck

RECURSIVE checkBulletShipCollisionsFrom(_, _, _, _)
checkBulletShipCollisionsFrom(w, shipGrid, bi, now) ==
    IF bi > Len(w.bullets) THEN w
    ELSE LET b == w.bullets[bi]
             cands == GridQuery(shipGrid, b.x, b.y, SHIP_RADIUS + BULLET_RADIUS)
         IN IF b.id \in w.bulletsToRemove
            THEN checkBulletShipCollisionsFrom(w, shipGrid, bi + 1, now)
            ELSE checkBulletShipCollisionsFrom(
                     bulletVsShips(w, b, cands, 1, now), shipGrid, bi + 1, now)

checkBulletShipCollisions(w, shipGrid, now) ==
    checkBulletShipCollisionsFrom(w, shipGrid, 1, now)

\* The candidate loop of one bullet in checkBulletNeutralCollisions.
RECURSIVE bulletVsNeutrals(_, _, _, _)
\* The candidate loop without the test that the bullet's owner is a player.
bulletVsNeutrals_anyOwner(w, b, cands, j) ==
    IF j > Len(cands) THEN w
    ELSE
      LET ni == NeutralIndex(w, cands[j])
          n == w.neutrals[ni]
          hitDistance == getNeutralRadius(n.type) + BULLET_RADIUS
          h == n.health - b.damage
          k == PlayerIndex(w, b.ownerId)
          paid == IF h <= 0 /\ k # 0 THEN n.xpValue ELSE 0
          w1 == [w EXCEPT !.neutrals[ni].health = h,
                          !.bulletsToRemove = @ \cup {b.id}]
          w2 == LedgerBlow(LogHit(w1, [via |-> "bullet", by |-> b.id,
                                       owner |-> b.ownerId, targetKind |-> "neutral",
                                       target |-> n.id, damage |-> b.damage,
                                       shielded |-> FALSE, before |-> n.health,
                                       after |-> h, died |-> (h <= 0), xp |-> paid]),
                           n, b.ownerId, b.damage, paid)
          w3 == [w2 EXCEPT !.neutralsToRemove = @ \cup {n.id}]
      IN IF b.ownerId = n.id THEN bulletVsNeutrals(w, b, cands, j + 1)
         ELSE IF ~(DistSq(n.x, n.y, b.x, b.y) < hitDistance * hitDistance)
              THEN bulletVsNeutrals(w, b, cands, j + 1)
         ELSE IF h > 0 THEN w2
         ELSE IF k = 0 THEN w3
         ELSE Emit(awardXP(w3, k, n.xpValue),
                   [type |-> "xpGained", x |-> n.x, y |-> n.y, amount |-> n.xpValue])

bulletVsNeutrals(w, b, cands, j) ==
    IF j > Len(cands) THEN w
    ELSE
      LET ni == NeutralIndex(w, cands[j])
          n == w.neutrals[ni]
          hitDistance == getNeutralRadius(n.type) + BULLET_RADIUS
          h == n.health - b.damage
          k == PlayerIndex(w, b.ownerId)
          paid == IF h <= 0 /\ k # 0 THEN n.xpValue ELSE 0
          w1 == [w EXCEPT !.neutrals[ni].health = h,
                          !.bulletsToRemove = @ \cup {b.id}]
          w2 == LedgerBlow(LogHit(w1, [via |-> "bullet", by |-> b.id,
                                       owner |-> b.ownerId, targetKind |-> "neutral",
                                       target |-> n.id, damage |-> b.damage,
                                       shielded |-> FALSE, before |-> n.health,
                                       after |-> h, died |-> (h <= 0), xp |-> paid]),
                           n, b.ownerId, b.damage, paid)
          w3 == [w2 EXCEPT !.neutralsToRemove = @ \cup {n.id}]
      IN IF b.ownerId = n.id THEN bulletVsNeutrals(w, b, cands, j + 1)
         ELSE IF PlayerIndex(w, b.ownerId) = 0 THEN bulletVsNeutrals(w, b, cands, j + 1)
         ELSE IF ~(DistSq(n.x, n.y, b.x, b.y) < hitDistance * hitDistance)
              THEN bulletVsNeutrals(w, b, cands, j + 1)
         ELSE IF h > 0 THEN w2
         ELSE IF k = 0 THEN w3
         ELSE Emit(awardXP(w3, k, n.xpValue),
                   [type |-> "xpGained", x |-> n.x, y |-> n.y, amount |-> n.xpValue])

RECURSIVE checkBulletNeutralCollisionsFrom(_, _, _)
checkBulletNeutralCollisionsFrom(w, neutralGrid, bi) ==
    IF bi > Len(w.bullets) THEN w
    ELSE LET b == w.bullets[bi]
             cands == GridQuery(neutralGrid, b.x, b.y, BULLET_RADIUS + 30)
         IN IF b.id \in w.bulletsToRemove
            THEN checkBulletNeutralCollisionsFrom(w, neutralGrid, bi + 1)
            ELSE checkBulletNeutralCollisionsFrom(
                     bulletVsNeutrals(w, b, cands, 1), neutralGrid, bi + 1)

checkBulletNeutralCollisions(w, neutralGrid) ==
    checkBulletNeutralCollisionsFrom(w, neutralGrid, 1)

\* Position of player index i in livingPlayers (playerIndex.get), 0 if absent.
LivingIndex(living, i) ==
    LET S == {k \in 1..Len(living) : living[k] = i}
    IN IF S = {} THEN 0 ELSE CHOOSE k \in S : TRUE

\* if (p.ship.health <= 0 && !p.isDead) handlePlayerDeath(p, other.id, 'collision')
sunkByCollision(w, i, otherId, now) ==
    IF w.players[i].ship.health <= 0 /\ ~w.players[i].isDead
    THEN handlePlayerDeath(w, i, otherId, "collision", now)
    ELSE w

\* One evaluated pair of checkShipShipCollisions: p1 = players[i1], p2 = players[i2].
shipVsShip(w, i1, i2, now) ==
    LET p1 == w.players[i1]
        p2 == w.players[i2]
        hitDistance == SHIP_RADIUS * 2
        dx == p2.ship.x - p1.ship.x
        dy == p2.ship.y - p1.ship.y
        distanceSq == dx * dx + dy * dy
        distance == ISqrt(distanceSq)
        \* nx * overlap = dx / distance * (hitDistance - distance) / 2
        mx == RoundDiv(dx * (hitDistance - distance), 2 * distance)
        my == RoundDiv(dy * (hitDistance - distance), 2 * distance)
        w1 == [w EXCEPT !.players[i1].ship.x = @ - mx,
                        !.players[i1].ship.y = @ - my,
                        !.players[i2].ship.x = @ + mx,
                        !.players[i2].ship.y = @ + my,
                        !.players[i1].ship.health = @ - 1,
                        !.players[i2].ship.health = @ - 1]
        w2 == LogHit(LogHit(w1,
                  [via |-> "ram", by |-> p2.id, owner |-> p2.id, targetKind |-> "ship",
                   target |-> p1.id, damage |-> 1, shielded |-> FALSE,
                   before |-> p1.ship.health, after |-> p1.ship.health - 1,
                   died |-> (p1.ship.health - 1 <= 0 /\ ~p1.isDead), xp |-> 0]),
                  [via |-> "ram", by |-> p1.id, owner |-> p1.id, targetKind |-> "ship",
                   target |-> p2.id, damage |-> 1, shielded |-> FALSE,
                   before |-> p2.ship.health, after |-> p2.ship.health - 1,
                   died |-> (p2.ship.health - 1 <= 0 /\ ~p2.isDead), xp |-> 0])
    IN IF distanceSq < hitDistance * hitDistance /\ distanceSq > 0
       THEN sunkByCollision(sunkByCollision(w2, i1, p2.id, now), i2, p1.id, now)
       ELSE w

RECURSIVE shipVsCandidates(_, _, _, _, _, _)
shipVsCandidates(w, living, k, cands, j, now) ==
    IF j > Len(cands) THEN w
    ELSE LET k2 == LivingIndex(living, cands[j])
         IN IF k2 = 0 \/ k2 <= k
            THEN shipVsCandidates(w, living, k, cands, j + 1, now)
            ELSE shipVsCandidates(shipVsShip(w, living[k], cands[j], now),
                                  living, k, cands, j + 1, now)

RECURSIVE checkShipShipCollisionsFrom(_, _, _, _, _)
checkShipShipCollisionsFrom(w, living, shipGrid, k, now) ==
    IF k > Len(living) THEN w
    ELSE LET p1 == w.players[living[k]]
             cands == GridQuery(shipGrid, p1.ship.x, p1.ship.y, SHIP_RADIUS * 2)
         IN checkShipShipCollisionsFrom(
                shipVsCandidates(w, living, k, cands, 1, now),
                living, shipGrid, k + 1, now)

checkShipShipCollisions(w, living, shipGrid, now) ==
    checkShipShipCollisionsFrom(w, living, shipGrid, 1, now)

\* The ship loop of one drone in checkDroneCollisions.
RECURSIVE droneVsShips(_, _, _, _, _)
droneVsShips(w, di, cands, j, now) ==
    IF j > Len(cands) THEN w
    ELSE
      LET d == w.drones[di]
          i == cands[j]
          p == w.players[i]
          hitDistance == DRONE_RADIUS + SHIP_RADIUS
          dx == d.x - p.ship.x
          dy == d.y - p.ship.y
          distanceSq == dx * dx + dy * dy
          distance == ISqrt(distanceSq)
          h == p.ship.health - DRONE_DAMAGE
          w1 == LogHit(Emit([w EXCEPT !.players[i].ship.health = h],
                            [type |-> "damageDealt", x |-> p.ship.x, y |-> p.ship.y,
                             damage |-> DRONE_DAMAGE, isCritical |-> FALSE]),
                       [via |-> "drone", by |-> d.id, owner |-> d.ownerId,
                        targetKind |-> "ship", target |-> p.id,
                        damage |-> DRONE_DAMAGE, shielded |-> FALSE,
                        before |-> p.ship.health, after |-> h,
                        died |-> (h <= 0), xp |-> 0])
          \* if (!player.ship.isShielded) { ... }: a shielded ship takes nothing
          \* and nothing is emitted.
          blocked == LogHit(w, [via |-> "drone", by |-> d.id, owner |-> d.ownerId,
                                targetKind |-> "ship", target |-> p.id,
                                damage |-> 0, shielded |-> TRUE,
                                before |-> p.ship.health, after |-> p.ship.health,
                                died |-> FALSE, xp |-> 0])
          w2 == IF p.ship.isShielded THEN blocked
                ELSE IF h <= 0 THEN handlePlayerDeath(w1, i, d.ownerId, "drone", now)
                ELSE w1
          w3 == [w2 EXCEPT !.drones[di].x = @ + RoundDiv(dx * 30, distance),
                           !.drones[di].y = @ + RoundDiv(dy * 30, distance)]
      IN IF p.id = d.ownerId \/ p.isDead THEN droneVsShips(w, di, cands, j + 1, now)
         ELSE IF p.ship.isStealthed THEN droneVsShips(w, di, cands, j + 1, now)
         ELSE IF now < p.spawnProtectionUntil THEN droneVsShips(w, di, cands, j + 1, now)
         ELSE IF distanceSq < hitDistance * hitDistance /\ distanceSq > 0
              THEN droneVsShips(w3, di, cands, j + 1, now)
         ELSE droneVsShips(w, di, cands, j + 1, now)

\* The neutral loop of one drone in checkDroneCollisions.
RECURSIVE droneVsNeutrals(_, _, _, _)
droneVsNeutrals(w, di, cands, j) ==
    IF j > Len(cands) THEN w
    ELSE
      LET d == w.drones[di]
          ni == NeutralIndex(w, cands[j])
          n == w.neutrals[ni]
          hitDistance == DRONE_RADIUS + getNeutralRadius(n.type)
          h == n.health - DRONE_DAMAGE
          k == PlayerIndex(w, d.ownerId)
          paid == IF h <= 0 THEN n.xpValue ELSE 0
          w1 == LedgerBlow(LogHit([w EXCEPT !.neutrals[ni].health = h],
                                  [via |-> "drone", by |-> d.id, owner |-> d.ownerId,
                                   targetKind |-> "neutral", target |-> n.id,
                                   damage |-> DRONE_DAMAGE, shielded |-> FALSE,
                                   before |-> n.health, after |-> h,
                                   died |-> (h <= 0), xp |-> paid]),
                           n, d.ownerId, DRONE_DAMAGE, paid)
          w2 == Emit(awardXP([w1 EXCEPT !.neutralsToRemove = @ \cup {n.id}],
                             k, n.xpValue),
                     [type |-> "xpGained", x |-> n.x, y |-> n.y, amount |-> n.xpValue])
      IN IF n.id \in w.neutralsToRemove THEN droneVsNeutrals(w, di, cands, j + 1)
         ELSE IF ~(DistSq(n.x, n.y, d.x, d.y) < hitDistance * hitDistance)
              THEN droneVsNeutrals(w, di, cands, j + 1)
         ELSE IF h <= 0 THEN droneVsNeutrals(w2, di, cands, j + 1)
         ELSE droneVsNeutrals(w1, di, cands, j + 1)

RECURSIVE checkDroneCollisionsFrom(_, _, _, _, _)
checkDroneCollisionsFrom(w, shipGrid, neutralGrid, di, now) ==
    IF di > Len(w.drones) THEN w
    ELSE
      LET d == w.drones[di]
      IN IF PlayerIndex(w, d.ownerId) = 0
         THEN checkDroneCollisionsFrom(w, shipGrid, neutralGrid, di + 1, now)
         ELSE checkDroneCollisionsFrom(
                  Only({ droneVsNeutrals(w1, di,
                             GridQuery(neutralGrid, w1.drones[di].x, w1.drones[di].y,
                                       DRONE_RADIUS + 30), 1)
                         : w1 \in {droneVsShips(w, di,
                                       GridQuery(shipGrid, d.x, d.y,
                                                 DRONE_RADIUS + SHIP_RADIUS), 1, now)} }),
                  shipGrid, neutralGrid, di + 1, now)

checkDroneCollisions(w, shipGrid, neutralGrid, now) ==
    checkDroneCollisionsFrom(w, shipGrid, neutralGrid, 1, now)

\* The end of checkCollisions filtering the bullets and not the neutrals.
removeMarked_bulletsOnly(w) ==
    [w EXCEPT !.bullets = SelectSeq(@, LAMBDA b : b.id \notin w.bulletsToRemove)]

\* The end of checkCollisions filtering the neutrals and not the bullets.
removeMarked_neutralsOnly(w) ==
    [w EXCEPT !.neutrals = SelectSeq(@, LAMBDA n : n.id \notin w.neutralsToRemove)]

\* bullets.filter(b => !bulletsToRemove.has(b.id)); the same for the neutrals.
removeMarked(w) ==
    [w EXCEPT
       !.bullets = SelectSeq(@, LAMBDA b : b.id \notin w.bulletsToRemove),
       !.neutrals = SelectSeq(@, LAMBDA n : n.id \notin w.neutralsToRemove)]

checkCollisions(w, now) ==
    LET living == LivingPlayers(w)
        shipGrid == ShipGrid(w)
        neutralGrid == NeutralGrid(w)
        w0 == [w EXCEPT !.bulletsToRemove = {}, !.neutralsToRemove = {}]
        w1 == checkBulletShipCollisions(w0, shipGrid, now)
        w2 == checkBulletNeutralCollisions(w1, neutralGrid)
        w3 == checkShipShipCollisions(w2, living, shipGrid, now)
    IN removeMarked(checkDroneCollisions(w3, shipGrid, neutralGrid, now))

\* ------------------------------------------------------------------------
\* Tick, phase 7: the snapshot
\* ------------------------------------------------------------------------
\* .sort((a, b) => b.score - a.score).slice(0, 10) over the living players.
\* getLeaderboard without the filter on isDead.
getLeaderboard_deadListed(w) ==
    LET entries == [k \in 1..Len(w.players) |->
                       LET p == w.players[k]
                       IN [id |-> p.id, name |-> p.name, score |-> p.ship.score,
                           kills |-> p.ship.kills, level |-> p.ship.level,
                           shipClass |-> p.ship.shipClass]]
        sorted == SortByScore(entries)
    IN SubSeq(sorted, 1, Min(10, Len(sorted)))

getLeaderboard(w) ==
    LET living == LivingPlayers(w)
        entries == [k \in 1..Len(living) |->
                       LET p == w.players[living[k]]
                       IN [id |-> p.id, name |-> p.name, score |-> p.ship.score,
                           kills |-> p.ship.kills, level |-> p.ship.level,
                           shipClass |-> p.ship.shipClass]]
        sorted == SortByScore(entries)
    IN SubSeq(sorted, 1, Min(10, Len(sorted)))

GameState(w, now) ==
    [timestamp |-> now,
     ships |-> [i \in 1..Len(w.players) |-> w.players[i].ship],
     bullets |-> w.bullets,
     neutrals |-> w.neutrals,
     drones |-> w.drones,
     leaderboard |-> getLeaderboard(w)]

\* r: the random draws of the spawn step.
tick(w, now, r) ==
    LET w1 == IF now - w.lastNeutralSpawn > NEUTRAL_SPAWN_INTERVAL
              THEN [spawnNeutral(w, r) EXCEPT !.lastNeutralSpawn = now]
              ELSE w
        w2 == updatePlayers(w1, now)
        w3 == updateNeutrals(w2, now)
        w4 == updateDrones(w3)
        w5 == updateBullets(w4)
    IN checkCollisions(w5, now)

\* ------------------------------------------------------------------------
\* State
\* ------------------------------------------------------------------------
VARIABLES
    players,            \* Map<string, Player>, in insertion order
    bullets,
    neutrals,
    drones,
    bulletIdCounter,
    neutralIdCounter,
    droneIdCounter,
    lastNeutralSpawn,
    save,               \* localStorage 'navalwar_save'
    leaderboard,        \* localStorage 'navalwar_leaderboard'
    clock,              \* Date.now()
    ticks,              \* number of ticks run so far
    requests,           \* number of requests handled so far
    snapshot,           \* the last gameState emitted
    emitted,            \* notifications emitted by the last handler
    hits,               \* blows dealt by the last handler
    aimed,              \* turret shots of the last handler
    ledger,             \* blows and XP per neutral id, over the whole run
    fallen,             \* the score entries of the local player's deaths, in order
    consumer,           \* the tick interval and the scene's gameState callback
    probe               \* a SpatialHashGrid with its candidate buffer and last query

vars == <<players, bullets, neutrals, drones, bulletIdCounter, neutralIdCounter,
          droneIdCounter, lastNeutralSpawn, save, leaderboard, clock, ticks,
          requests, snapshot, emitted, hits, aimed, ledger, fallen, consumer,
          probe>>

\* The world a handler starts from.
World ==
    [players |-> players, bullets |-> bullets, neutrals |-> neutrals,
     drones |-> drones, bulletIdCounter |-> bulletIdCounter,
     neutralIdCounter |-> neutralIdCounter, droneIdCounter |-> droneIdCounter,
     lastNeutralSpawn |-> lastNeutralSpawn, save |-> save,
     leaderboard |-> leaderboard, ledger |-> ledger,
     emitted |-> <<>>, hits |-> <<>>, aimed |-> <<>>,
     bulletsToRemove |-> {}, neutralsToRemove |-> {}]

\* The world a handler leaves behind.
Becomes(w) ==
    /\ players' = w.players
    /\ bullets' = w.bullets
    /\ neutrals' = w.neutrals
    /\ drones' = w.drones
    /\ bulletIdCounter' = w.bulletIdCounter
    /\ neutralIdCounter' = w.neutralIdCounter
    /\ droneIdCounter' = w.droneIdCounter
    /\ lastNeutralSpawn' = w.lastNeutralSpawn
    /\ save' = w.save
    /\ leaderboard' = w.leaderboard
    /\ ledger' = w.ledger
    /\ emitted' = w.emitted
    /\ hits' = w.hits
    /\ aimed' = w.aimed

\* ------------------------------------------------------------------------
\* The explored part of the input space
\* ------------------------------------------------------------------------
MaxTicks == 3
MaxRequests == 4

\* The scene: the local ship at x0, a second ship 40 px ahead of it (inside
\* ramming distance and in the local ship's line of fire), a lighthouse 50 px
\* behind the local ship, a buoy 75 px ahead of it.
Scene == [start |-> 100000, x0 |-> 1050, respawnX |-> 1500,
          fillerY |-> 2800, fillerX0 |-> 150, fillerStep |-> 95]

otherPlayerId == <<"player-2", 0>>
PlayerIds == {localPlayerId, otherPlayerId}

HomeX(id) == IF id = localPlayerId THEN Scene.x0 ELSE Scene.x0 + 40

Name(id) == IF id = localPlayerId THEN "Ann" ELSE "Bob"

\* Time between two ticks as Date.now() sees it: the nominal interval, or a
\* late timer (a throttled page).
TickElapsed == {TICK_INTERVAL, SPAWN_PROTECTION_MS}

\* The local ship holds its place, heading east, and fires or uses its ability.
Inputs ==
    {[x |-> Scene.x0, y |-> Row, rotation |-> 0, thrust |-> FALSE,
      fire |-> f, useAbility |-> ~f] : f \in BOOLEAN}

RequestedClasses == {"cruiser", "carrier"}
RequestedStats == {"healthBonus", "reloadBonus"}

\* Outcomes of the random draws of spawnNeutral explored in a tick: a buoy
\* 75 px ahead of the local ship.
SpawnDraws ==
    {[valid |-> TRUE, type |-> "buoy", x |-> Scene.x0 + 75, y |-> Row, rotation |-> 0]}

\* A progression record left in the store by an earlier session: level 10,
\* reload at the cap, one upgrade point unspent.
VeteranSave ==
    [present |-> TRUE, score |-> 106400, level |-> 10, xp |-> 40,
     shipClass |-> "submarine",
     stats |-> [healthBonus |-> 0, speedBonus |-> 1, damageBonus |-> 0,
                reloadBonus |-> 7],
     upgradePoints |-> 1]

InitialSaves == {NoSave, VeteranSave}

\* The draws of spawnInitialNeutrals: a lighthouse in the scene, the others
\* buoys on a far row.
InitialDraws ==
    [k \in 1..INITIAL_NEUTRALS |->
        IF k = 1 THEN [valid |-> TRUE, type |-> "lighthouse",
                       x |-> Scene.x0 - 50, y |-> Row, rotation |-> 0]
        ELSE [valid |-> TRUE, type |-> "buoy",
              x |-> Scene.fillerX0 + Scene.fillerStep * (k - 2),
              y |-> Scene.fillerY, rotation |-> 0]]

\* spawnNeutral for the draws k..Len(draws), in order (the span is halved to
\* keep the evaluation shallow).
spawnInitialNeutrals(w, draws, k) ==
    LET RECURSIVE span(_, _, _)
        span(v, lo, hi) ==
            IF lo > hi THEN v
            ELSE IF lo = hi THEN spawnNeutral(v, draws[lo])
            ELSE Only({ span(v1, (lo + hi) \div 2 + 1, hi)
                        : v1 \in {span(v, lo, (lo + hi) \div 2)} })
    IN span(w, k, Len(draws))

\* spawnTanks with the draw below 0.5 on island_0 only.
spawnTanks(w) == spawnTank(w, Islands[1])

EmptyWorld(store, now) ==
    [players |-> <<>>, bullets |-> <<>>, neutrals |-> <<>>, drones |-> <<>>,
     bulletIdCounter |-> 0, neutralIdCounter |-> 0, droneIdCounter |-> 0,
     lastNeutralSpawn |-> now, save |-> store, leaderboard |-> NoLeaderboard,
     ledger |-> <<>>, emitted |-> <<>>, hits |-> <<>>, aimed |-> <<>>,
     bulletsToRemove |-> {}, neutralsToRemove |-> {}]

\* The interval of start() is set; the scene has not set
\* networkManager.onGameState yet.
NoConsumer ==
    [timer |-> TRUE, mounted |-> FALSE, dev |-> FALSE, outcome |-> "none",
     faults |-> 0]

\* A grid just constructed and an empty candidate array.
NoProbe == [grid |-> <<>>, out |-> <<>>, asked |-> <<>>]

NoSnapshot ==
    [timestamp |-> 0, ships |-> <<>>, bullets |-> <<>>, neutrals |-> <<>>,
     drones |-> <<>>, leaderboard |-> <<>>]

\* constructor: generateIslands(); start() { spawnInitialNeutrals(); spawnTanks() }
Init ==
    \E store \in InitialSaves :
        LET w == spawnTanks(spawnInitialNeutrals(
                     EmptyWorld(store, Scene.start), InitialDraws, 1))
        IN /\ players = w.players
           /\ bullets = w.bullets
           /\ neutrals = w.neutrals
           /\ drones = w.drones
           /\ bulletIdCounter = w.bulletIdCounter
           /\ neutralIdCounter = w.neutralIdCounter
           /\ droneIdCounter = w.droneIdCounter
           /\ lastNeutralSpawn = w.lastNeutralSpawn
           /\ save = w.save
           /\ leaderboard = w.leaderboard
           /\ ledger = w.ledger
           /\ emitted = <<>>
           /\ hits = <<>>
           /\ aimed = <<>>
           /\ clock = Scene.start
           /\ ticks = 0
           /\ requests = 0
           /\ snapshot = NoSnapshot
           /\ fallen = <<>>
           /\ consumer = NoConsumer
           /\ probe = NoProbe

\* ------------------------------------------------------------------------
\* Actions
\* ------------------------------------------------------------------------
\* A request whose handler leaves the world `after`.
Request(after) ==
    /\ requests < MaxRequests
    /\ requests' = requests + 1
    /\ \E w \in {after} : Becomes(w)
    /\ UNCHANGED <<clock, ticks, snapshot, fallen, consumer, probe>>

\* joinGame(playerName) for the local player; handleJoinGame for a further ship.
JoinGame(id) == Request(handleJoinGame(World, id, Name(id), HomeX(id), clock))

\* emitInput(input)
PlayerInput(input) == Request(handlePlayerInput(World, localPlayerId, input))

\* emitUpgradeShip(shipClass)
UpgradeShip(shipClass) ==
    Request(handleUpgradeShipClass(World, localPlayerId, shipClass))

\* emitUpgradeStat(stat)
UpgradeStat(stat) == Request(handleUpgradeStat(World, localPlayerId, stat))

\* emitRespawn()
Respawn == Request(handleRespawn(World, localPlayerId, Scene.respawnX, clock))

\* The interval callback: tick(), ending in broadcastGameState().
Tick(elapsed, r) ==
    /\ ticks < MaxTicks
    /\ \E w \in {tick(World, clock + elapsed, r)} :
          /\ Becomes(w)
          /\ snapshot' = GameState(w, clock + elapsed)
          /\ fallen' = IF w.leaderboard = leaderboard THEN fallen
                        ELSE fallen \o w.leaderboard.lastGame
    /\ clock' = clock + elapsed
    /\ ticks' = ticks + 1
    /\ UNCHANGED <<requests, consumer, probe>>

Next ==
    \/ \E id \in PlayerIds : JoinGame(id)
    \/ \E input \in Inputs : PlayerInput(input)
    \/ \E c \in RequestedClasses : UpgradeShip(c)
    \/ \E st \in RequestedStats : UpgradeStat(st)
    \/ Respawn
    \/ \E e \in TickElapsed : \E r \in SpawnDraws : Tick(e, r)

Spec == Init /\ [][Next]_vars

\* ------------------------------------------------------------------------
\* The snapshot of a crowded world: broadcastGameState applied to rosters of up
\* to MaxRoster registered players whose scores and deaths are drawn from
\* small menus.
\* ------------------------------------------------------------------------
MaxRoster == 12

\* Scores as awardXP and handlePlayerDeath leave them: multiples of 10.
ScoreMenu == <<0, 80, 250, 600, 1200>>

\* Player k of a roster: joined at the start, then scored and possibly sunk.
RosterPlayer(k, score, dead) ==
    LET p == NewPlayer(<<"player", k>>, "Player", Scene.x0 + 300 * k, Scene.start)
    IN [p EXCEPT !.ship.score = score,
                 !.isDead = dead,
                 !.ship.health = IF dead THEN 0 ELSE @,
                 !.deathTime = IF dead THEN Scene.start ELSE @]

Roster(n, a, b, m, d) ==
    [k \in 1..n |-> RosterPlayer(k, ScoreMenu[((k * a + b) % Len(ScoreMenu)) + 1],
                                 (k + d) % m = 0)]

BoardInit ==
    \E n \in 0..MaxRoster : \E a \in 1..4 : \E b \in 0..4 :
    \E m \in {2, 3, MaxRoster + 1} : \E d \in 0..1 :
        LET w == spawnTanks(spawnInitialNeutrals(
                     EmptyWorld(NoSave, Scene.start), InitialDraws, 1))
        IN /\ players = Roster(n, a, b, m, d)
           /\ bullets = w.bullets
           /\ neutrals = w.neutrals
           /\ drones = w.drones
           /\ bulletIdCounter = w.bulletIdCounter
           /\ neutralIdCounter = w.neutralIdCounter
           /\ droneIdCounter = w.droneIdCounter
           /\ lastNeutralSpawn = w.lastNeutralSpawn
           /\ save = w.save
           /\ leaderboard = w.leaderboard
           /\ ledger = w.ledger
           /\ emitted = <<>>
           /\ hits = <<>>
           /\ aimed = <<>>
           /\ clock = Scene.start
           /\ ticks = 0
           /\ requests = 0
           /\ snapshot = NoSnapshot
           /\ fallen = <<>>
           /\ consumer = NoConsumer
           /\ probe = NoProbe

\* broadcastGameState()
Broadcast ==
    /\ snapshot.timestamp # clock
    /\ snapshot' = GameState(World, clock)
    /\ UNCHANGED <<players, bullets, neutrals, drones, bulletIdCounter,
                   neutralIdCounter, droneIdCounter, lastNeutralSpawn, save,
                   leaderboard, clock, ticks, requests, emitted, hits, aimed,
                   ledger, fallen, consumer, probe>>

BoardNext == Broadcast

BoardSpec == BoardInit /\ [][BoardNext]_vars

\* ------------------------------------------------------------------------
\* The local ship alone, 100 px further from the lighthouse or at its usual
\* place: turret fire that misses the ship flies on over the spawned buoy.
\* ------------------------------------------------------------------------
FlightInputs ==
    {[x |-> Scene.x0 + 100, y |-> Row, rotation |-> 0, thrust |-> FALSE,
      fire |-> FALSE, useAbility |-> FALSE],
     [x |-> Scene.x0, y |-> Row, rotation |-> 0, thrust |-> FALSE,
      fire |-> TRUE, useAbility |-> FALSE]}

FlightNext ==
    \/ JoinGame(localPlayerId)
    \/ \E input \in FlightInputs : PlayerInput(input)
    \/ \E e \in TickElapsed : \E r \in SpawnDraws : Tick(e, r)

FlightSpec == Init /\ [][FlightNext]_vars

\* ------------------------------------------------------------------------
\* Joining over whatever the store holds: nothing, text that does not parse,
\* or a parsed record whose fields may be absent or name an unknown class.
\* ------------------------------------------------------------------------
StoredItems ==
    {NoSave, GarbledSave, VeteranSave} \cup
    {[present |-> TRUE, score |-> sc, level |-> lv, xp |-> 0, shipClass |-> c,
      stats |-> st, upgradePoints |-> 0] :
        sc \in {0, 500}, lv \in {0, 4}, c \in {"", "dreadnought", "cruiser"},
        st \in {Absent, DEFAULT_STATS}}

LoadInit ==
    \E store \in StoredItems :
        LET w == spawnTanks(spawnInitialNeutrals(
                     EmptyWorld(store, Scene.start), InitialDraws, 1))
        IN /\ players = w.players
           /\ bullets = w.bullets
           /\ neutrals = w.neutrals
           /\ drones = w.drones
           /\ bulletIdCounter = w.bulletIdCounter
           /\ neutralIdCounter = w.neutralIdCounter
           /\ droneIdCounter = w.droneIdCounter
           /\ lastNeutralSpawn = w.lastNeutralSpawn
           /\ save = w.save
           /\ leaderboard = w.leaderboard
           /\ ledger = w.ledger
           /\ emitted = <<>>
           /\ hits = <<>>
           /\ aimed = <<>>
           /\ clock = Scene.start
           /\ ticks = 0
           /\ requests = 0
           /\ snapshot = NoSnapshot
           /\ fallen = <<>>
           /\ consumer = NoConsumer
           /\ probe = NoProbe

LoadNext ==
    \/ \E id \in PlayerIds : JoinGame(id)
    \/ \E input \in Inputs : PlayerInput(input)

LoadSpec == LoadInit /\ [][LoadNext]_vars

\* ------------------------------------------------------------------------
\* Lives of the local player: it scores, is destroyed by the lighthouse, and
\* respawns, more often than the high-score list is long.
\* ------------------------------------------------------------------------
MaxDeaths == 11
LifeScores == {80, 250}

\* handlePlayerDeath for the living local player that gained `gain` in this
\* life, one tick interval later.
Fall(gain) ==
    /\ Len(fallen) < MaxDeaths
    /\ \E i \in {PlayerIndex(World, localPlayerId)} \ {0} :
       \E k \in {n \in DOMAIN neutrals : neutrals[n].type = "lighthouse"} :
       \E w \in {handlePlayerDeath([World EXCEPT !.players[i].ship.score = @ + gain],
                                   i, neutrals[k].id, "bullet", clock + TICK_INTERVAL)} :
          /\ ~players[i].isDead
          /\ Becomes(w)
          /\ fallen' = Append(fallen, [name |-> players[i].name,
                                       score |-> players[i].ship.score + gain,
                                       date |-> clock + TICK_INTERVAL])
    /\ clock' = clock + TICK_INTERVAL
    /\ UNCHANGED <<ticks, requests, snapshot, consumer, probe>>

\* emitRespawn() of the dead local player.
Revive ==
    /\ \E i \in {PlayerIndex(World, localPlayerId)} \ {0} : players[i].isDead
    /\ \E w \in {handleRespawn(World, localPlayerId, Scene.respawnX, clock)} : Becomes(w)
    /\ UNCHANGED <<clock, ticks, requests, snapshot, fallen, consumer, probe>>

DeathNext ==
    \/ JoinGame(localPlayerId)
    \/ \E gain \in LifeScores : Fall(gain)
    \/ Revive

DeathSpec == Init /\ [][DeathNext]_vars

\* ------------------------------------------------------------------------
\* Island_0 approached: a cargo ship and a lighthouse bullet that have
\* travelled east to the edge of island_0, `dy` above or below its centre
\* line, and the local ship spawned on, in or beside the island and steered
\* across it.
\* ------------------------------------------------------------------------
Approaches == {[dy |-> dy, k |-> k] : dy \in {0, 103}, k \in {1, 2}}

\* Ticks the lighthouse bullet has flown so far.
FlownTicks == 7

\* Spawn draws: the centre of island_0 and a point inside it.
SweepSpawns == {Islands[1].x, Islands[1].x + 60}

\* A point inside island_0 and the two ends of a chord of the expanded circle
\* near its rim.
SweepInputs ==
    {[x |-> Islands[1].x + d[1], y |-> Islands[1].y + d[2], rotation |-> 0,
      thrust |-> FALSE, fire |-> FALSE, useAbility |-> FALSE] :
        d \in {<<60, 0>>, <<50, -120>>, <<-50, -120>>}}

SweepWorld(a) ==
    LET isl == Islands[1]
        bx == isl.x - ISqrt((isl.radius + BULLET_RADIUS) * (isl.radius + BULLET_RADIUS)
                            - a.dy * a.dy) - (15 * a.k - 14)
        cx == isl.x - ISqrt((isl.radius + 30) * (isl.radius + 30) - a.dy * a.dy) - a.k
        draws == [InitialDraws EXCEPT
                    ![2] = [valid |-> TRUE, type |-> "lighthouse",
                            x |-> bx - 50 - FlownTicks * PerTick(NEUTRAL_BULLET_SPEED),
                            y |-> isl.y - a.dy, rotation |-> 0],
                    ![3] = [valid |-> TRUE, type |-> "cargo",
                            x |-> isl.x - 200, y |-> isl.y + a.dy, rotation |-> 0]]
        w == spawnTanks(spawnInitialNeutrals(EmptyWorld(NoSave, Scene.start), draws, 1))
    IN [w EXCEPT
          !.neutrals[3].x = cx,
          !.bullets = <<[id |-> <<"bullet", 0>>, ownerId |-> w.neutrals[2].id,
                         x |-> bx, y |-> isl.y - a.dy,
                         velocityX |-> NEUTRAL_BULLET_SPEED, velocityY |-> 0,
                         damage |-> LIGHTHOUSE_DAMAGE,
                         lifetime |-> NEUTRAL_BULLET_LIFETIME - FlownTicks * TICK_INTERVAL,
                         type |-> "cannon", ignoreTerrain |-> FALSE]>>,
          !.bulletIdCounter = 1]

SweepInit ==
    \E a \in Approaches :
        \E w \in {SweepWorld(a)} :
           /\ players = w.players
           /\ bullets = w.bullets
           /\ neutrals = w.neutrals
           /\ drones = w.drones
           /\ bulletIdCounter = w.bulletIdCounter
           /\ neutralIdCounter = w.neutralIdCounter
           /\ droneIdCounter = w.droneIdCounter
           /\ lastNeutralSpawn = w.lastNeutralSpawn
           /\ save = w.save
           /\ leaderboard = w.leaderboard
           /\ ledger = w.ledger
           /\ emitted = <<>>
           /\ hits = <<>>
           /\ aimed = <<>>
           /\ clock = Scene.start
           /\ ticks = 0
           /\ requests = 0
           /\ snapshot = NoSnapshot
           /\ fallen = <<>>
           /\ consumer = NoConsumer
           /\ probe = NoProbe

SweepNext ==
    \/ \E spawnX \in SweepSpawns :
           Request(handleJoinGame(World, localPlayerId, Name(localPlayerId), spawnX, clock))
    \/ \E input \in SweepInputs : PlayerInput(input)
    \/ \E e \in TickElapsed : \E r \in SpawnDraws : Tick(e, r)

SweepSpec == SweepInit /\ [][SweepNext]_vars

\* ------------------------------------------------------------------------
\* The scene consuming the snapshots: GameScene.handleGameState behind the
\* 'gameState' listener of NetworkManager, which the emit that ends
\* broadcastGameState calls synchronously.
\* ------------------------------------------------------------------------

\* fault: applyGameState throws on this snapshot.  With import.meta.env.DEV
\* the call is not wrapped; otherwise the catch logs the error.
handleGameState(c, fault) ==
    IF ~fault THEN "applied"
    ELSE IF c.dev THEN "uncaught"
    ELSE "logged"

\* The listener: if (this.onGameState) this.onGameState(state).
onGameState(c, fault) ==
    IF c.mounted THEN handleGameState(c, fault) ELSE "none"

\* tick() with the snapshot sent before the collisions are resolved: an
\* exception leaving the listener skips the rest of the tick.
tickCallback_broadcastEarly(w, now, r, c, fault) ==
    LET w1 == IF now - w.lastNeutralSpawn > NEUTRAL_SPAWN_INTERVAL
              THEN [spawnNeutral(w, r) EXCEPT !.lastNeutralSpawn = now]
              ELSE w
    IN Only({ IF onGameState(c, fault) = "uncaught"
              THEN [world |-> w5, state |-> GameState(w5, now),
                    outcome |-> "uncaught"]
              ELSE [world |-> checkCollisions(w5, now),
                    state |-> GameState(w5, now),
                    outcome |-> onGameState(c, fault)]
              : w5 \in {updateBullets(updateDrones(updateNeutrals(
                            updatePlayers(w1, now), now)))} })

\* The interval callback, () => this.tick().  broadcastGameState is the last
\* statement of tick: an exception leaving the listener unwinds emit,
\* broadcastGameState and tick, and no statement of the tick is skipped.
tickCallback(w, now, r, c, fault) ==
    Only({ [world |-> w6, state |-> GameState(w6, now),
            outcome |-> onGameState(c, fault)]
           : w6 \in {tick(w, now, r)} })

\* GameScene.create sets networkManager.onGameState, in either build.
Mount(dev) ==
    /\ ~consumer.mounted
    /\ consumer' = [consumer EXCEPT !.mounted = TRUE, !.dev = dev]
    /\ UNCHANGED <<players, bullets, neutrals, drones, bulletIdCounter,
                   neutralIdCounter, droneIdCounter, lastNeutralSpawn, save,
                   leaderboard, clock, ticks, requests, snapshot, emitted,
                   hits, aimed, ledger, fallen, probe>>

\* One firing of the interval timer.  The timer is not cleared by an
\* exception of an earlier callback: only stop() clears it.
TickConsumed(elapsed, r, fault) ==
    /\ ticks < MaxTicks
    /\ consumer.timer
    /\ fault => consumer.mounted
    /\ \E t \in {tickCallback(World, clock + elapsed, r, consumer, fault)} :
          /\ Becomes(t.world)
          /\ snapshot' = t.state
          /\ fallen' = IF t.world.leaderboard = leaderboard THEN fallen
                        ELSE fallen \o t.world.leaderboard.lastGame
          /\ consumer' = [consumer EXCEPT
                             !.outcome = t.outcome,
                             !.faults = @ + (IF fault THEN 1 ELSE 0)]
    /\ clock' = clock + elapsed
    /\ ticks' = ticks + 1
    /\ UNCHANGED <<requests, probe>>

ConsumeNext ==
    \/ \E dev \in BOOLEAN : Mount(dev)
    \/ JoinGame(localPlayerId)
    \/ \E input \in FlightInputs : PlayerInput(input)
    \/ \E e \in TickElapsed : \E r \in SpawnDraws : \E fault \in BOOLEAN :
          TickConsumed(e, r, fault)

ConsumeSpec == Init /\ [][ConsumeNext]_vars

\* ------------------------------------------------------------------------
\* A skirmish in progress: the local ship, a level-7 carrier, with a buoy
\* ahead of it and a second ship ahead of it, 3000 ms after both joined.
\*   buoy, buoyHealth : distance of the buoy (0: far away) and what earlier
\*                      blows have left of its 25 health
\*   other            : distance of the second ship (-1: none), on the same
\*                      spot at 0, inside ramming distance at 40, inside a
\*                      launched drone's reach at 50
\*   level, shield    : the second ship's level; a cruiser asking for its shield
\*   health, own      : what earlier blows have left of the two ships' health
\*                      (0: untouched)
\* ------------------------------------------------------------------------
Skirmishes ==
    {a \in [buoy : {0, 33, 47}, buoyHealth : {5, 10, 25}, other : {-1, 0, 40, 50},
            level : {1, MAX_LEVEL}, shield : BOOLEAN, health : {0, 1, 5},
            own : {0, 1}] :
        /\ a.buoy = 0 => a.buoyHealth = 25
        /\ a.other < 0 => (a.level = 1 /\ ~a.shield /\ a.health = 0 /\ a.own = 0)
        /\ a.shield => a.level = MAX_LEVEL
        /\ a.own = 1 => (a.other = 40 /\ a.health = 1)}

\* The local ship holds its place and launches a drone, or not.
SkirmishInputs ==
    {[x |-> Scene.x0, y |-> Row, rotation |-> 0, thrust |-> FALSE,
      fire |-> FALSE, useAbility |-> u] : u \in BOOLEAN}

Wounded(w, i, health) ==
    IF health = 0 THEN w ELSE [w EXCEPT !.players[i].ship.health = health]

\* The second ship joins (the store holds no save for it).
SkirmishOther(w, a) ==
    Only({ Wounded(IF a.shield
                   THEN handlePlayerInput(
                            handleUpgradeShipClass(w4, otherPlayerId, "cruiser"),
                            otherPlayerId,
                            [w4.players[2].lastInput EXCEPT !.useAbility = TRUE])
                   ELSE w4, 2, a.health)
           : w4 \in {[w3 EXCEPT !.players[2].ship.level = a.level,
                                !.players[2].upgradePoints = a.level - 1]
                        : w3 \in {handleJoinGame([w EXCEPT !.save = NoSave],
                                                 otherPlayerId, Name(otherPlayerId),
                                                 Scene.x0 + a.other, Scene.start)}} })

SkirmishWorld(a) ==
    LET draws == [InitialDraws EXCEPT
                    ![1] = [valid |-> TRUE, type |-> "buoy",
                            x |-> IF a.buoy = 0 THEN Scene.fillerX0
                                  ELSE Scene.x0 + a.buoy,
                            y |-> IF a.buoy = 0 THEN Scene.fillerY + Scene.fillerStep
                                  ELSE Row,
                            rotation |-> 0]]
    IN Only({ Wounded(IF a.other < 0 THEN w2 ELSE SkirmishOther(w2, a), 1, a.own)
              : w2 \in {handleUpgradeShipClass(
                            [w1 EXCEPT !.players[1].ship.level = 7,
                                       !.players[1].upgradePoints = 6],
                            localPlayerId, "carrier")
                        : w1 \in {handleJoinGame(
                                     [w0 EXCEPT !.neutrals[1].health = a.buoyHealth],
                                     localPlayerId, Name(localPlayerId), Scene.x0,
                                     Scene.start)
                                  : w0 \in {spawnTanks(spawnInitialNeutrals(
                                               EmptyWorld(NoSave, Scene.start),
                                               draws, 1))}}} })

SkirmishInit ==
    \E a \in Skirmishes :
        \E w \in {SkirmishWorld(a)} :
           /\ players = w.players
           /\ bullets = w.bullets
           /\ neutrals = w.neutrals
           /\ drones = w.drones
           /\ bulletIdCounter = w.bulletIdCounter
           /\ neutralIdCounter = w.neutralIdCounter
           /\ droneIdCounter = w.droneIdCounter
           /\ lastNeutralSpawn = Scene.start + SPAWN_PROTECTION_MS
           /\ save = w.save
           /\ leaderboard = w.leaderboard
           /\ ledger = w.ledger
           /\ emitted = <<>>
           /\ hits = <<>>
           /\ aimed = <<>>
           /\ clock = Scene.start + SPAWN_PROTECTION_MS
           /\ ticks = 0
           /\ requests = 0
           /\ snapshot = NoSnapshot
           /\ fallen = <<>>
           /\ consumer = NoConsumer
           /\ probe = NoProbe

SkirmishNext ==
    \/ \E input \in SkirmishInputs : PlayerInput(input)
    \/ \E r \in SpawnDraws : Tick(TICK_INTERVAL, r)

SkirmishSpec == SkirmishInit /\ [][SkirmishNext]_vars

\* ------------------------------------------------------------------------
\* A SpatialHashGrid on its own: values are inserted at points of the world
\* and the grid is queried into one reused candidate array, as the passes of
\* checkCollisions do.
\* ------------------------------------------------------------------------
MaxInserts == 3

\* Cell 0 and its border with cell 1 on both axes, the last cell of the
\* world, and the scene.
GridPoints ==
    {<<0, 0>>, <<30, 30>>, <<139, 30>>, <<140, 139>>, <<Scene.x0, Row>>,
     <<WORLD_WIDTH - 30, WORLD_HEIGHT - 30>>}

\* Queries whose square leaves the world at the origin (negative corners),
\* stays in one cell, spans cells, has a zero or negative range.
GridQueries ==
    {[x |-> q[1], y |-> q[2], range |-> q[3]] :
        q \in {<<30, 30, 2 * SHIP_RADIUS>>, <<0, 0, GRID_CELL_SIZE>>,
               <<139, 30, 1>>, <<140, 139, 0>>, <<30, 30, -5>>,
               <<Scene.x0, Row, DRONE_RADIUS + SHIP_RADIUS>>,
               <<WORLD_WIDTH - 30, WORLD_HEIGHT - 30, 2 * SHIP_RADIUS>>}}

\* queryInto with out.length = 0 left out.
queryInto_appending(grid, x, y, range, out) ==
    out \o GridQuery(grid, x, y, range)

\* out.length = 0, then the buckets of the cell range are pushed.
queryInto(grid, x, y, range, out) ==
    SubSeq(out, 1, 0) \o GridQuery(grid, x, y, range)

\* grid.insert(x, y, value)
Insert(p) ==
    /\ Len(probe.grid) < MaxInserts
    /\ probe' = [probe EXCEPT
                    !.grid = GridInsert(@, p[1], p[2],
                                        [id |-> Len(@) + 1, x |-> p[1], y |-> p[2]])]
    /\ UNCHANGED <<players, bullets, neutrals, drones, bulletIdCounter,
                   neutralIdCounter, droneIdCounter, lastNeutralSpawn, save,
                   leaderboard, clock, ticks, requests, snapshot, emitted,
                   hits, aimed, ledger, fallen, consumer>>

\* grid.queryInto(x, y, range, candidates)
Query(q) ==
    /\ probe' = [probe EXCEPT
                    !.out = queryInto(probe.grid, q.x, q.y, q.range, @),
                    !.asked = <<q>>]
    /\ UNCHANGED <<players, bullets, neutrals, drones, bulletIdCounter,
                   neutralIdCounter, droneIdCounter, lastNeutralSpawn, save,
                   leaderboard, clock, ticks, requests, snapshot, emitted,
                   hits, aimed, ledger, fallen, consumer>>

GridNext ==
    \/ \E p \in GridPoints : Insert(p)
    \/ \E q \in GridQueries : Query(q)

GridSpec == Init /\ [][GridNext]_vars

\* ------------------------------------------------------------------------
\* A crowded sea: the world after construction with a tank on every island or
\* on island_0 only, and after the spawn steps of a number of earlier ticks,
\* up to the population cap.
\* ------------------------------------------------------------------------
\* spawnTanks with the draws given island by island (TRUE: below 0.5).
RECURSIVE spawnTanksDrawn(_, _, _)
spawnTanksDrawn(w, coin, k) ==
    IF k > Len(Islands) THEN w
    ELSE Only({ spawnTanksDrawn(w1, coin, k + 1)
                : w1 \in {IF coin[k] THEN spawnTank(w, Islands[k]) ELSE w} })

\*   everyIsland : a tank on all 13 islands, or on island_0 only
\*   spawned     : neutrals added by the spawn steps of earlier ticks
Crowds ==
    {a \in [everyIsland : BOOLEAN, spawned : {0, 5, 6, 7}] :
        ~a.everyIsland => a.spawned = 0}

\* The draws of the earlier spawn steps: buoys on a row of their own.
EarlierDraws(n) ==
    [k \in 1..n |-> [valid |-> TRUE, type |-> "buoy",
                     x |-> Scene.fillerX0 + Scene.fillerStep * k,
                     y |-> Scene.fillerY + Scene.fillerStep, rotation |-> 0]]

\* Draws of a tick's spawn step: a buoy or a lighthouse on a free spot, or
\* twenty positions all too near an island.
CrowdDraws ==
    {[valid |-> v, type |-> t, x |-> Scene.x0 + 75, y |-> Scene.fillerY - Scene.fillerStep,
      rotation |-> 0] : v \in BOOLEAN, t \in {"buoy", "lighthouse"}}

CrowdWorld(a) ==
    Only({ spawnInitialNeutrals(w1, EarlierDraws(a.spawned), 1)
           : w1 \in {spawnTanksDrawn(w0, [k \in 1..Len(Islands) |->
                                             a.everyIsland \/ k = 1], 1)
                     : w0 \in {spawnInitialNeutrals(
                                  EmptyWorld(NoSave, Scene.start), InitialDraws, 1)}} })

CrowdInit ==
    \E a \in Crowds :
        \E w \in {CrowdWorld(a)} :
           /\ players = w.players
           /\ bullets = w.bullets
           /\ neutrals = w.neutrals
           /\ drones = w.drones
           /\ bulletIdCounter = w.bulletIdCounter
           /\ neutralIdCounter = w.neutralIdCounter
           /\ droneIdCounter = w.droneIdCounter
           /\ lastNeutralSpawn =
                  Scene.start + a.spawned * (NEUTRAL_SPAWN_INTERVAL + TICK_INTERVAL)
           /\ save = w.save
           /\ leaderboard = w.leaderboard
           /\ ledger = w.ledger
           /\ emitted = <<>>
           /\ hits = <<>>
           /\ aimed = <<>>
           /\ clock = Scene.start + a.spawned * (NEUTRAL_SPAWN_INTERVAL + TICK_INTERVAL)
           /\ ticks = 0
           /\ requests = 0
           /\ snapshot = NoSnapshot
           /\ fallen = <<>>
           /\ consumer = NoConsumer
           /\ probe = NoProbe

CrowdNext ==
    \/ JoinGame(localPlayerId)
    \/ \E e \in TickElapsed : \E r \in CrowdDraws : Tick(e, r)

CrowdSpec == CrowdInit /\ [][CrowdNext]_vars

\* ------------------------------------------------------------------------
\* Shots late in their flight: the local ship, a level-7 carrier, with a
\* bullet of its own, a tank shell and a drone that have each flown east
\* along the row for a number of regular ticks without meeting anything
\* (the shell was fired at a ship that has since moved away).
\*   bullet, shell, drone : ticks flown so far (0: not there)
\* ------------------------------------------------------------------------
Flights == [bullet : {0, 38, 39}, shell : {0, 58, 59}, drone : {0, 98, 99}]

\* The longest flight there is: a drone's.
LongestFlight == DRONE_LIFETIME \div TICK_INTERVAL

\* The local ship holds its place and fires, launches a drone, or neither.
LateInputs ==
    {[x |-> Scene.x0, y |-> Row, rotation |-> 0, thrust |-> FALSE,
      fire |-> f, useAbility |-> u] : f \in BOOLEAN, u \in BOOLEAN}

\* The last element of a sequence, after n regular ticks of straight flight.
FlownOn(seq, n, speed, ranOut) ==
    [seq EXCEPT ![Len(seq)] =
        [@ EXCEPT !.x = @ + n * PerTick(speed),
                  !.lifetime = ranOut - n * TICK_INTERVAL]]

LateWorld(a, now) ==
    LET tank == Len(InitialDraws) + 1
        shot(w) == IF a.bullet = 0 THEN w
                   ELSE [spawnBullet(w, 1) EXCEPT
                            !.players[1].lastFireTime = now - a.bullet * TICK_INTERVAL,
                            !.bullets = FlownOn(@, a.bullet, PLAYER_BULLET_SPEED,
                                                PLAYER_BULLET_LIFETIME)]
        shelled(w) == IF a.shell = 0 THEN w
                      ELSE [spawnNeutralBullet(w, tank, 1) EXCEPT
                               !.neutrals[tank].lastFireTime =
                                   now - a.shell * TICK_INTERVAL,
                               !.bullets = FlownOn(@, a.shell, NEUTRAL_BULLET_SPEED,
                                                   NEUTRAL_BULLET_LIFETIME)]
        launched(w) == IF a.drone = 0 THEN w
                       ELSE [spawnDrone(w, 1) EXCEPT
                                !.players[1].ship.abilityActive = TRUE,
                                !.players[1].abilityActiveUntil =
                                    now - a.drone * TICK_INTERVAL
                                        + SHIP_ABILITIES["carrier"].duration,
                                !.players[1].abilityCooldownUntil =
                                    now - a.drone * TICK_INTERVAL
                                        + SHIP_ABILITIES["carrier"].cooldown,
                                !.drones = FlownOn(@, a.drone, DRONE_SPEED,
                                                   DRONE_LIFETIME)]
    IN Only({ launched(shelled(shot(w)))
              : w \in {SkirmishWorld([buoy |-> 0, buoyHealth |-> 25, other |-> -1,
                                      level |-> 1, shield |-> FALSE, health |-> 0,
                                      own |-> 0])} })

LateInit ==
    \E a \in Flights :
        \E now \in {Scene.start + SPAWN_PROTECTION_MS + LongestFlight * TICK_INTERVAL} :
        \E w \in {LateWorld(a, now)} :
           /\ players = w.players
           /\ bullets = w.bullets
           /\ neutrals = w.neutrals
           /\ drones = w.drones
           /\ bulletIdCounter = w.bulletIdCounter
           /\ neutralIdCounter = w.neutralIdCounter
           /\ droneIdCounter = w.droneIdCounter
           /\ lastNeutralSpawn = now
           /\ save = w.save
           /\ leaderboard = w.leaderboard
           /\ ledger = w.ledger
           /\ emitted = <<>>
           /\ hits = <<>>
           /\ aimed = <<>>
           /\ clock = now
           /\ ticks = 0
           /\ requests = 0
           /\ snapshot = NoSnapshot
           /\ fallen = <<>>
           /\ consumer = NoConsumer
           /\ probe = NoProbe

LateNext ==
    \/ \E input \in LateInputs : PlayerInput(input)
    \/ \E e \in TickElapsed : \E r \in SpawnDraws : Tick(e, r)

LateSpec == LateInit /\ [][LateNext]_vars

\* ------------------------------------------------------------------------
\* Vocabulary of the properties
\* ------------------------------------------------------------------------
Ids(seq) == {seq[k].id : k \in DOMAIN seq}

\* The events of one type in a sequence of notifications.
EventsOf(events, type) == SelectSeq(events, LAMBDA e : e.type = type)

\* The step is a tick.
TickStep == ticks' = ticks + 1

\* The protection window of players[i] is open at the current time.
ProtectedNow(i) == clock < players[i].spawnProtectionUntil

HasPlayer(id) == \E i \in DOMAIN players : players[i].id = id

PlayerOf(id) == players[CHOOSE i \in DOMAIN players : players[i].id = id]

\* ------------------------------------------------------------------------
\* C1: within one tick's collision pass a bullet affects at most one target:
\* no two blows of the pass (a blocked hit on a shielded ship counts) are
\* dealt by the same bullet.
\* ------------------------------------------------------------------------
C1_BulletAffectsOneTarget ==
    \A a, b \in DOMAIN hits :
        (hits[a].via = "bullet" /\ hits[b].via = "bullet" /\ hits[a].by = hits[b].by)
            => a = b

\* ------------------------------------------------------------------------
\* C2: the XP paid for destroying a neutral is paid at most once: over its
\* whole life a neutral has yielded either nothing or exactly its xpValue.
\* ------------------------------------------------------------------------
C2_XPOncePerNeutral ==
    \A id \in DOMAIN ledger : ledger[id].xp \in {0, ledger[id].xpValue}

\* ------------------------------------------------------------------------
\* C3: awardXP levels up as often as the XP allows: below MAX_LEVEL a player's
\* remaining xp is strictly below the threshold of the current level.
\* ------------------------------------------------------------------------
C3_XPBelowThreshold ==
    \A i \in DOMAIN players :
        players[i].ship.level < MAX_LEVEL
            => players[i].ship.xp < getXPToNextLevel(players[i].ship.level)

\* ------------------------------------------------------------------------
\* C4: in every emitted gameState snapshot every ship and every neutral has
\* 0 <= health <= maxHealth.
\* ------------------------------------------------------------------------
C4_SnapshotHealthInRange ==
    /\ \A k \in DOMAIN snapshot.ships :
           /\ 0 <= snapshot.ships[k].health
           /\ snapshot.ships[k].health <= snapshot.ships[k].maxHealth
    /\ \A k \in DOMAIN snapshot.neutrals :
           /\ 0 <= snapshot.neutrals[k].health
           /\ snapshot.neutrals[k].health <= snapshot.neutrals[k].maxHealth

\* ------------------------------------------------------------------------
\* C5: handlePlayerDeath is idempotent on a dead player (no state change, no
\* event, whoever the killer), and every transition from alive to dead has
\* its effects exactly once: one playerDied, one deathTimer and one killFeed
\* for the victim, one kill for the killing player, one leaderboard entry for
\* the local player; and none of them without such a transition.
\* ------------------------------------------------------------------------
KillerIds == Ids(players) \cup {neutrals[1].id, <<"nobody", 0>>}

IdempotentOnDead ==
    \A i \in DOMAIN players :
        players[i].isDead =>
            \A k \in KillerIds :
                handlePlayerDeath(World, i, k, "cannon", clock + TICK_INTERVAL) = World

DiesNow(i) == i \in DOMAIN players /\ ~players[i].isDead /\ players'[i].isDead

DeathEffectsOnce ==
    \A i \in DOMAIN players' :
        LET id == players'[i].id
            n == IF DiesNow(i) THEN 1 ELSE 0
            died == SelectSeq(EventsOf(emitted', "playerDied"), LAMBDA e : e.victimId = id)
            timer == SelectSeq(EventsOf(emitted', "deathTimer"), LAMBDA e : e.player = id)
            feed == SelectSeq(EventsOf(emitted', "killFeed"),
                              LAMBDA e : e.victimName = players'[i].name)
            kills == SelectSeq(EventsOf(emitted', "playerDied"), LAMBDA e : e.killerId = id)
        IN /\ Len(died) = n
           /\ Len(timer) = n
           /\ Len(feed) = n
           /\ TickStep => players'[i].ship.kills = players[i].ship.kills + Len(kills)
           /\ id = localPlayerId =>
                  Len(leaderboard'.highScores) = Len(leaderboard.highScores) + n

C5_DeathHandledOnce == [] IdempotentOnDead /\ [][DeathEffectsOnce]_vars

\* A ship has just died in a tick and the pass went on after its death.
C5_Witness ==
    /\ EventsOf(emitted, "playerDied") # <<>>
    /\ \E i \in DOMAIN players : players[i].isDead /\ players[i].deathTime = clock

\* ------------------------------------------------------------------------
\* C6: while its protection window is open a player takes no blow from a
\* bullet or a drone (not even a blocked one), and no lighthouse or tank
\* aims at it.
\* ------------------------------------------------------------------------
NoBlowWhileProtected ==
    /\ \A k \in DOMAIN hits :
           (hits[k].targetKind = "ship" /\ hits[k].via \in {"bullet", "drone"})
               => ~(clock < PlayerOf(hits[k].target).spawnProtectionUntil)
    /\ \A k \in DOMAIN aimed :
           ~(clock < PlayerOf(aimed[k].target).spawnProtectionUntil)

\* The window is opened by a join and by a respawn, for 3000 ms, and by
\* nothing else.
WindowOpened ==
    \A i \in DOMAIN players' :
        IF \E k \in DOMAIN emitted' :
               /\ emitted'[k].type \in {"respawned", "playerId"}
               /\ emitted'[k].player = players'[i].id
        THEN players'[i].spawnProtectionUntil = clock' + 3000
        ELSE players'[i].spawnProtectionUntil = players[i].spawnProtectionUntil

C6_SpawnProtection == [] NoBlowWhileProtected /\ [][WindowOpened]_vars

\* After a tick, a living, visible, protected ship lies within hit distance
\* of somebody else's bullet, and within range of a turret that is ready.
C6_Witness ==
    /\ ticks > 0
    /\ \E i \in DOMAIN players :
           /\ ~players[i].isDead /\ ~players[i].ship.isStealthed
           /\ ProtectedNow(i)
           /\ \E k \in DOMAIN bullets :
                  /\ bullets[k].ownerId # players[i].id
                  /\ DistSq(players[i].ship.x, players[i].ship.y,
                            bullets[k].x, bullets[k].y)
                         < (SHIP_RADIUS + BULLET_RADIUS) * (SHIP_RADIUS + BULLET_RADIUS)
           /\ \E k \in DOMAIN neutrals :
                  /\ neutrals[k].type = "lighthouse"
                  /\ neutrals[k].lastFireTime = 0
                  /\ DistSq(players[i].ship.x, players[i].ship.y,
                            neutrals[k].x, neutrals[k].y)
                         < LIGHTHOUSE_RANGE * LIGHTHOUSE_RANGE

\* ------------------------------------------------------------------------
\* C7: a bullet that hits a shielded ship produces a damageDealt of damage 0
\* at the ship, leaves the ship's health as it was, starts no death handling,
\* and is gone from the bullets when the tick ends.
\* ------------------------------------------------------------------------
BlockedHits == SelectSeq(hits, LAMBDA h : h.via = "bullet" /\ h.shielded)

BlockedHitsLogged ==
    \A k \in DOMAIN BlockedHits :
        LET h == BlockedHits[k]
        IN /\ h.before = h.after
           /\ ~h.died
           /\ h.by \notin Ids(bullets)
           /\ h.by \notin Ids(snapshot.bullets)
           /\ \E e \in DOMAIN emitted :
                  /\ emitted[e].type = "damageDealt"
                  /\ emitted[e].damage = 0

\* A ship whose only blows of the tick were blocked hits keeps its health and
\* stays alive; one damageDealt of damage 0 is emitted per blocked hit.
BlockedHitsHarmless ==
    TickStep =>
        /\ Len(SelectSeq(EventsOf(emitted', "damageDealt"), LAMBDA e : e.damage = 0))
               = Len(SelectSeq(hits', LAMBDA h : h.via = "bullet" /\ h.shielded))
        /\ \A i \in DOMAIN players :
               LET mine == SelectSeq(hits', LAMBDA h : h.target = players[i].id)
               IN (mine # <<>> /\ \A k \in DOMAIN mine :
                                      mine[k].via = "bullet" /\ mine[k].shielded)
                      => /\ players'[i].ship.health = players[i].ship.health
                         /\ players'[i].isDead = players[i].isDead
                         /\ \A e \in DOMAIN emitted' :
                                emitted'[e].type = "playerDied"
                                    => emitted'[e].victimId # players[i].id

C7_ShieldBlocksBullet == [] BlockedHitsLogged /\ [][BlockedHitsHarmless]_vars

\* A tick in which a shielded ship's only blow was a blocked bullet.
C7_Witness ==
    /\ BlockedHits # <<>>
    /\ \A k \in DOMAIN hits : hits[k].shielded

\* ------------------------------------------------------------------------
\* C8 (as stated): a buoy (health 25, xpValue 8) hit twice by bullets of
\* damage 12 is absent from the next snapshot and has yielded 8 XP.
\* ------------------------------------------------------------------------
TwelveOnlyIn(book, id, n) ==
    /\ book[id].type = "buoy"
    /\ book[id].xpValue = 8
    /\ Len(book[id].blows) = n
    /\ \A k \in 1..n : book[id].blows[k].damage = 12

TwelveOnly(id, n) == TwelveOnlyIn(ledger, id, n)

InSnapshot(id) == id \in Ids(snapshot.neutrals)

C8_BuoyGoneAfterTwoHits ==
    \A id \in DOMAIN ledger :
        TwelveOnly(id, 2) => (~InSnapshot(id) /\ ledger[id].xp = 8)

\* C8 (amended): after two such hits the buoy is still in the snapshot, with
\* health 1, and has yielded nothing; after the third it is absent from the
\* snapshot and has yielded exactly 8 XP.
BuoyGoneAfterThreeHits ==
    \A id \in DOMAIN ledger :
        /\ TwelveOnly(id, 2) =>
               /\ ledger[id].xp = 0
               /\ \E k \in DOMAIN snapshot.neutrals :
                      snapshot.neutrals[k].id = id /\ snapshot.neutrals[k].health = 1
        /\ TwelveOnly(id, 3) => (~InSnapshot(id) /\ ledger[id].xp = 8)
        /\ (ledger[id].type = "buoy" /\ InSnapshot(id)) =>
               \E k \in DOMAIN snapshot.neutrals :
                   /\ snapshot.neutrals[k].id = id
                   /\ snapshot.neutrals[k].health
                          = 25 - SeqSum([b \in DOMAIN ledger[id].blows |->
                                            ledger[id].blows[b].damage])

\* In the tick of the third hit the shooter's xp grows by exactly 8 (when
\* that tick brings it no other XP and no level).
ThirdHitPaysEight ==
    \A id \in DOMAIN ledger' :
        (TwelveOnlyIn(ledger', id, 3) /\ id \in DOMAIN ledger /\ TwelveOnly(id, 2)) =>
            \A i \in DOMAIN players :
                (/\ players[i].id = ledger'[id].blows[3].owner
                 /\ Len(EventsOf(emitted', "xpGained")) = 1
                 /\ EventsOf(emitted', "playerDied") = <<>>)
                    => /\ players'[i].ship.xp = players[i].ship.xp + 8
                       /\ players'[i].ship.level = players[i].ship.level
                       /\ EventsOf(emitted', "xpGained")[1].amount = 8

C8_BuoyGoneAfterThreeHits == [] BuoyGoneAfterThreeHits /\ [][ThirdHitPaysEight]_vars

\* The third hit has just destroyed the buoy and paid the level-1 shooter.
C8_Witness ==
    /\ \E id \in DOMAIN ledger : TwelveOnly(id, 3) /\ ~InSnapshot(id)
    /\ Len(EventsOf(emitted, "xpGained")) = 1
    /\ EventsOf(emitted, "playerDied") = <<>>
    /\ \E i \in DOMAIN players : players[i].ship.xp = 8 /\ players[i].ship.level = 1

\* ------------------------------------------------------------------------
\* C9: levelUp is emitted exactly when a level is gained, and carries the new
\* level, the upgrade points and the classes of the current class's upgrade
\* path unlocked at the new level; a level-1 patrol boat reaching level 2 is
\* told of one point and of a list with the destroyer and without the
\* battleship.
\* ------------------------------------------------------------------------
LevelUpsAnnounced ==
    TickStep =>
        \A i \in DOMAIN players :
            LET p == players[i]
                ups == SelectSeq(EventsOf(emitted', "levelUp"),
                                 LAMBDA e : e.player = p.id)
            IN /\ Len(ups) = players'[i].ship.level - p.ship.level
               /\ \A k \in DOMAIN ups :
                      /\ ups[k].newLevel = p.ship.level + k
                      /\ ups[k].upgradePoints = p.upgradePoints + k
                      /\ ups[k].availableShipClasses =
                             SelectSeq(SHIP_UPGRADE_PATHS[p.ship.shipClass],
                                       LAMBDA c : SHIP_UNLOCK_LEVELS[c] <= p.ship.level + k)
               /\ players'[i].upgradePoints = p.upgradePoints + Len(ups)

NoLevelUpOutsideTicks == ~TickStep => EventsOf(emitted', "levelUp") = <<>>

PatrolBoatAtLevelTwo ==
    \A k \in DOMAIN emitted :
        (emitted[k].type = "levelUp" /\ emitted[k].newLevel = 2)
            => /\ PlayerOf(emitted[k].player).ship.shipClass = "patrol_boat"
               /\ emitted[k].upgradePoints = 1
               /\ \E c \in DOMAIN emitted[k].availableShipClasses :
                      emitted[k].availableShipClasses[c] = "destroyer"
               /\ \A c \in DOMAIN emitted[k].availableShipClasses :
                      emitted[k].availableShipClasses[c] # "battleship"

C9_LevelUpEvent ==
    /\ [] PatrolBoatAtLevelTwo
    /\ [][LevelUpsAnnounced /\ NoLevelUpOutsideTicks]_vars

\* A level-1 patrol boat has just reached level 2.
C9_Witness ==
    \E k \in DOMAIN emitted :
        /\ emitted[k].type = "levelUp"
        /\ emitted[k].newLevel = 2
        /\ PlayerOf(emitted[k].player).ship.level = 2

\* ------------------------------------------------------------------------
\* C10 (as stated): a player's level never decreases over XP awards, its
\* upgradePoints increase only together with a level increment and decrease
\* only in a successful stat upgrade.
\* ------------------------------------------------------------------------
StatTotal(p) ==
    p.ship.stats.healthBonus + p.ship.stats.speedBonus
        + p.ship.stats.damageBonus + p.ship.stats.reloadBonus

LevelKept(i) == TickStep => players'[i].ship.level >= players[i].ship.level

PointsGainedWithLevel(i) ==
    players'[i].upgradePoints > players[i].upgradePoints
        => players'[i].ship.level > players[i].ship.level

PointsSpentOnStat(i) ==
    players'[i].upgradePoints < players[i].upgradePoints
        => /\ players'[i].upgradePoints = players[i].upgradePoints - 1
           /\ StatTotal(players'[i]) = StatTotal(players[i]) + 1
           /\ players'[i].ship.level = players[i].ship.level

C10_PointsOnlyByLevelAndStat ==
    [][\A i \in DOMAIN players :
           LevelKept(i) /\ PointsGainedWithLevel(i) /\ PointsSpentOnStat(i)]_vars

\* C10 (amended): the same, except in the steps in which handleRespawn or
\* handleJoinGame writes the player's progression anew: a respawn puts level
\* and upgradePoints back to 1 and 0, a join takes them from the stored save.
Rewritten(i) ==
    \/ \E k \in DOMAIN emitted' :
           emitted'[k].type = "respawned" /\ emitted'[k].player = players[i].id
    \/ \E k \in DOMAIN emitted' :
           emitted'[k].type = "playerId" /\ emitted'[k].player = players[i].id

RewrittenAsCoded(i) ==
    \/ /\ \E k \in DOMAIN emitted' : emitted'[k].type = "respawned"
       /\ players'[i].ship.level = 1
       /\ players'[i].upgradePoints = 0
    \/ /\ \E k \in DOMAIN emitted' : emitted'[k].type = "playerId"
       /\ players'[i].ship.level = IF save.present THEN save.level ELSE 1
       /\ players'[i].upgradePoints = IF save.present THEN save.upgradePoints ELSE 0

C10_PointsExceptRespawnAndJoin ==
    [][\A i \in DOMAIN players :
           IF Rewritten(i) THEN RewrittenAsCoded(i)
           ELSE LevelKept(i) /\ PointsGainedWithLevel(i) /\ PointsSpentOnStat(i)]_vars

\* The local player, which joined with the stored level 10 (as the second
\* ship did), has just respawned at level 1 without upgrade points.
C10_Witness ==
    /\ EventsOf(emitted, "respawned") # <<>>
    /\ \E i, j \in DOMAIN players :
           /\ players[i].id = localPlayerId
           /\ players[i].ship.level = 1
           /\ players[i].upgradePoints = 0
           /\ players[j].id # localPlayerId
           /\ players[j].ship.level = MAX_LEVEL
           /\ players[j].upgradePoints = 1

\* ------------------------------------------------------------------------
\* C11: invalid requests are no-ops: a request for an id that is not
\* registered, a stat upgrade without upgrade points or for a stat at
\* MAX_STAT_POINTS, and a class upgrade to a class whose unlock level exceeds
\* the player's level leave the world and the store as they were and emit
\* nothing.
\* ------------------------------------------------------------------------
UnregisteredIds == {id \in PlayerIds \cup {<<"ghost", 0>>} : ~HasPlayer(id)}

InvalidRequestsRefused ==
    /\ \A id \in UnregisteredIds :
           /\ \A input \in Inputs : handlePlayerInput(World, id, input) = World
           /\ \A stat \in StatNames : handleUpgradeStat(World, id, stat) = World
           /\ \A c \in ShipClasses : handleUpgradeShipClass(World, id, c) = World
           /\ handleRespawn(World, id, Scene.respawnX, clock) = World
    /\ \A i \in DOMAIN players :
           /\ \A stat \in StatNames :
                  (players[i].upgradePoints = 0
                       \/ players[i].ship.stats[stat] = MAX_STAT_POINTS)
                      => handleUpgradeStat(World, players[i].id, stat) = World
           /\ \A c \in ShipClasses :
                  SHIP_UNLOCK_LEVELS[c] > players[i].ship.level
                      => handleUpgradeShipClass(World, players[i].id, c) = World

\* A request made while the local player is not registered, other than a
\* join, leaves every variable of the server as it was and emits nothing.
InvalidRequestSteps ==
    (/\ requests' = requests + 1
     /\ ~HasPlayer(localPlayerId)
     /\ EventsOf(emitted', "playerId") = <<>>)
        => /\ emitted' = <<>>
           /\ UNCHANGED <<players, bullets, neutrals, drones, bulletIdCounter,
                          neutralIdCounter, droneIdCounter, lastNeutralSpawn,
                          save, leaderboard, clock, ticks, snapshot>>

C11_InvalidRequestsIgnored ==
    [] InvalidRequestsRefused /\ [][InvalidRequestSteps]_vars

\* A fresh level-1 player without points: besides the join, two requests were
\* made, none an input, and the last one was refused.
C11_Witness ==
    /\ requests = 3
    /\ ticks = 0
    /\ emitted = <<>>
    /\ HasPlayer(localPlayerId)
    /\ PlayerOf(localPlayerId).upgradePoints = 0
    /\ PlayerOf(localPlayerId).ship.level = 1
    /\ ~PlayerOf(localPlayerId).lastInput.fire
    /\ ~PlayerOf(localPlayerId).lastInput.useAbility

\* ------------------------------------------------------------------------
\* C12: a successful stat upgrade takes exactly one upgrade point, adds one to
\* exactly the named stat, sets maxHealth to the class base + 10 * healthBonus
\* and health to round(health / oldMax * newMax), and changes nothing else of
\* the player; in every reachable state the four stat bonuses lie in
\* 0..MAX_STAT_POINTS and upgradePoints >= 0.
\* ------------------------------------------------------------------------
\* h = round(num / den) for den > 0, halves rounded up (Math.round).
IsRounded(h, num, den) == 2 * den * h - den <= 2 * num /\ 2 * num < 2 * den * h + den

UpgradedAs(before, after, stat) ==
    LET newMax == SHIP_STATS[before.ship.shipClass].maxHealth
                      + 10 * after.ship.stats.healthBonus
    IN /\ after.upgradePoints = before.upgradePoints - 1
       /\ after.ship.stats = [before.ship.stats EXCEPT ![stat] = @ + 1]
       /\ after.ship.maxHealth = newMax
       /\ IsRounded(after.ship.health, before.ship.health * newMax, before.ship.maxHealth)
       /\ after = [before EXCEPT !.upgradePoints = after.upgradePoints,
                                 !.ship.stats = after.ship.stats,
                                 !.ship.maxHealth = after.ship.maxHealth,
                                 !.ship.health = after.ship.health]

StatUpgradeApplied ==
    \A i \in DOMAIN players : \A stat \in StatNames :
        (players[i].upgradePoints > 0 /\ players[i].ship.stats[stat] < MAX_STAT_POINTS)
            => \E w \in {handleUpgradeStat(World, players[i].id, stat)} :
                   /\ UpgradedAs(players[i], w.players[i], stat)
                   /\ \A j \in DOMAIN players : j # i => w.players[j] = players[j]
                   /\ Len(w.players) = Len(players)

StatsInRange ==
    \A i \in DOMAIN players :
        /\ players[i].upgradePoints >= 0
        /\ \A stat \in StatNames :
               players[i].ship.stats[stat] \in 0..MAX_STAT_POINTS

\* A request that emits only the stats of the local player and spends a point
\* is a stat upgrade of the local player, applied as above.
StatUpgradeSteps ==
    (/\ requests' = requests + 1
     /\ HasPlayer(localPlayerId)
     /\ Len(emitted') = 1
     /\ \E i \in DOMAIN players :
            players[i].id = localPlayerId
                /\ players'[i].upgradePoints < players[i].upgradePoints)
        => \E i \in DOMAIN players : \E stat \in StatNames :
               /\ players[i].id = localPlayerId
               /\ UpgradedAs(players[i], players'[i], stat)
               /\ save'.stats = players'[i].ship.stats
               /\ save'.upgradePoints = players'[i].upgradePoints

C12_StatUpgrade ==
    [] (StatUpgradeApplied /\ StatsInRange) /\ [][StatUpgradeSteps]_vars

\* The stored submarine, hit once by the lighthouse (65 of 80), has just spent
\* its point on healthBonus: maxHealth 90, health round(65 / 80 * 90) = 73.
C12_Witness ==
    /\ Len(emitted) = 1
    /\ emitted[1].type = "playerStats"
    /\ HasPlayer(localPlayerId)
    /\ PlayerOf(localPlayerId).ship.stats.healthBonus = 1
    /\ PlayerOf(localPlayerId).upgradePoints = 0
    /\ PlayerOf(localPlayerId).ship.maxHealth = 90
    /\ PlayerOf(localPlayerId).ship.health = 73

\* ------------------------------------------------------------------------
\* C13: upgradeShipClass changes the class if and only if the player's level
\* is at least the unlock level of the target class, and then sets maxHealth
\* to the base of the new class + 10 * healthBonus and health to maxHealth;
\* in every reachable state the unlock level of a ship's class is at most the
\* ship's level.
\* ------------------------------------------------------------------------
SwitchedTo(before, after, c) ==
    /\ after.ship.shipClass = c
    /\ after.ship.maxHealth = SHIP_STATS[c].maxHealth + 10 * before.ship.stats.healthBonus
    /\ after.ship.health = after.ship.maxHealth
    /\ after = [before EXCEPT !.ship.shipClass = after.ship.shipClass,
                              !.ship.maxHealth = after.ship.maxHealth,
                              !.ship.health = after.ship.health]

ClassGated ==
    \A i \in DOMAIN players : \A c \in ShipClasses :
        \E w \in {handleUpgradeShipClass(World, players[i].id, c)} :
            IF players[i].ship.level >= SHIP_UNLOCK_LEVELS[c]
            THEN /\ SwitchedTo(players[i], w.players[i], c)
                 /\ \A j \in DOMAIN players : j # i => w.players[j] = players[j]
            ELSE w = World

ClassUnlocked ==
    \A i \in DOMAIN players :
        SHIP_UNLOCK_LEVELS[players[i].ship.shipClass] <= players[i].ship.level

\* A step that changes a ship's class without a join or a respawn is a class
\* upgrade to an unlocked class, applied as above.
ClassChangeSteps ==
    \A i \in DOMAIN players :
        (/\ i \in DOMAIN players'
         /\ players'[i].ship.shipClass # players[i].ship.shipClass
         /\ EventsOf(emitted', "playerId") = <<>>
         /\ EventsOf(emitted', "respawned") = <<>>)
            => /\ players[i].ship.level >= SHIP_UNLOCK_LEVELS[players'[i].ship.shipClass]
               /\ SwitchedTo(players[i], players'[i], players'[i].ship.shipClass)
               /\ requests' = requests + 1

C13_ClassGating ==
    [] (ClassGated /\ ClassUnlocked) /\ [][ClassChangeSteps]_vars

\* The level-10 local player has just switched from submarine to carrier.
C13_Witness ==
    /\ Len(emitted) = 1
    /\ emitted[1].type = "playerStats"
    /\ HasPlayer(localPlayerId)
    /\ PlayerOf(localPlayerId).ship.shipClass = "carrier"
    /\ PlayerOf(localPlayerId).ship.level = MAX_LEVEL
    /\ PlayerOf(localPlayerId).ship.health = PlayerOf(localPlayerId).ship.maxHealth
    /\ PlayerOf(localPlayerId).ship.maxHealth
           = 140 + 10 * PlayerOf(localPlayerId).ship.stats.healthBonus

\* ------------------------------------------------------------------------
\* C14 (as stated): the respawn of a registered player sets isDead to false,
\* score, xp and kills to 0, level to 1, the stat bonuses and upgradePoints to
\* 0, the class to patrol_boat with health = maxHealth = 100, the position to
\* a point of [500, 2500] x [500, 2500] and spawnProtectionUntil to now + 3000,
\* persists this reset state and emits respawned.
\* ------------------------------------------------------------------------
ResetSave ==
    [present |-> TRUE, score |-> 0, level |-> 1, xp |-> 0,
     shipClass |-> "patrol_boat", stats |-> DEFAULT_STATS, upgradePoints |-> 0]

IsReset(p, now) ==
    /\ ~p.isDead
    /\ p.ship.score = 0 /\ p.ship.xp = 0 /\ p.ship.kills = 0 /\ p.ship.level = 1
    /\ p.ship.stats = DEFAULT_STATS /\ p.upgradePoints = 0
    /\ p.ship.shipClass = "patrol_boat"
    /\ p.ship.health = 100 /\ p.ship.maxHealth = 100
    /\ p.ship.x \in 500..2500 /\ p.ship.y \in 500..2500
    /\ p.spawnProtectionUntil = now + 3000

RespawnResets(i, w) ==
    /\ IsReset(w.players[i], clock)
    /\ Len(EventsOf(w.emitted, "respawned")) = 1
    /\ EventsOf(w.emitted, "respawned")[1].x = w.players[i].ship.x
    /\ EventsOf(w.emitted, "respawned")[1].y = w.players[i].ship.y

C14_RespawnResetsAndPersists ==
    \A i \in DOMAIN players :
        \E w \in {handleRespawn(World, players[i].id, Scene.respawnX, clock)} :
            RespawnResets(i, w) /\ w.save = ResetSave

\* C14 (amended): the same, but the reset state is persisted only when the
\* player is the local player; the respawn of any other registered player
\* leaves the store as it was.
RespawnPersistsLocalOnly ==
    \A i \in DOMAIN players :
        \E w \in {handleRespawn(World, players[i].id, Scene.respawnX, clock)} :
            /\ RespawnResets(i, w)
            /\ w.save = IF players[i].id = localPlayerId THEN ResetSave ELSE save
            /\ w.leaderboard = leaderboard

\* A step that emits respawned has reset the local player and stored the
\* reset state.
RespawnSteps ==
    EventsOf(emitted', "respawned") # <<>>
        => \E i \in DOMAIN players' :
               /\ players'[i].id = localPlayerId
               /\ IsReset(players'[i], clock')
               /\ save' = ResetSave
               /\ \A j \in DOMAIN players' : j # i => players'[j] = players[j]

C14_RespawnPersistsLocalOnly ==
    [] RespawnPersistsLocalOnly /\ [][RespawnSteps]_vars

\* The local player, joined from the stored level-10 save, has just respawned
\* next to a second registered ship, and the store holds the reset state.
C14_Witness ==
    /\ EventsOf(emitted, "respawned") # <<>>
    /\ save = ResetSave
    /\ HasPlayer(otherPlayerId)
    /\ PlayerOf(otherPlayerId).ship.level = MAX_LEVEL
    /\ IsReset(PlayerOf(localPlayerId), clock)

\* ------------------------------------------------------------------------
\* C15: the leaderboard of every emitted snapshot has at most 10 entries,
\* lists only players that are not dead (each once, with its own score), is
\* ordered by score non-increasing, and omits a living player only if 10
\* listed players have scores >= that player's score.
\* ------------------------------------------------------------------------
Listed(board, id) == \E k \in DOMAIN board : board[k].id = id

BoardOf(board, roster) ==
    /\ Len(board) <= 10
    /\ \A k \in DOMAIN board :
           \E i \in DOMAIN roster :
               /\ roster[i].id = board[k].id
               /\ ~roster[i].isDead
               /\ board[k].score = roster[i].ship.score
    /\ \A j, k \in DOMAIN board : board[j].id = board[k].id => j = k
    /\ \A k \in 1..(Len(board) - 1) : board[k].score >= board[k + 1].score
    /\ \A i \in DOMAIN roster :
           (~roster[i].isDead /\ ~Listed(board, roster[i].id))
               => /\ Len(board) = 10
                  /\ \A k \in DOMAIN board : board[k].score >= roster[i].ship.score

C15_LeaderboardTopTen ==
    snapshot.timestamp = clock => BoardOf(snapshot.leaderboard, players)

\* A snapshot of twelve ships, some of them dead, whose board is full, leaves
\* out a living ship and lists different scores.
C15_Witness ==
    /\ snapshot.timestamp = clock
    /\ Len(players) = MaxRoster
    /\ Len(snapshot.leaderboard) = 10
    /\ \E i \in DOMAIN players : players[i].isDead
    /\ \E i \in DOMAIN players :
           ~players[i].isDead /\ ~Listed(snapshot.leaderboard, players[i].id)
    /\ snapshot.leaderboard[1].score > snapshot.leaderboard[10].score

\* ------------------------------------------------------------------------
\* C16: only bullets owned by a registered player reduce a neutral's health:
\* turret fire never damages, destroys or is consumed by a neutral, and a
\* neutral loses health or disappears only through a player's bullet or a
\* drone.
\* ------------------------------------------------------------------------
Overlaps(b, n) ==
    DistSq(n.x, n.y, b.x, b.y)
        < (getNeutralRadius(n.type) + BULLET_RADIUS) * (getNeutralRadius(n.type) + BULLET_RADIUS)

ByPlayerOrDrone(h) ==
    \/ h.via \in {"drone", "homing"}
    \/ h.via = "bullet" /\ HasPlayer(h.owner)

NoBlowByTurretFire ==
    \A k \in DOMAIN hits : hits[k].targetKind = "neutral" => ByPlayerOrDrone(hits[k])

\* A neutral that lost health or disappeared took a blow of a player's bullet
\* or of a drone in that step.
HarmedOnlyByPlayers ==
    \A i \in DOMAIN neutrals :
        (\/ neutrals[i].id \notin Ids(neutrals')
         \/ \E j \in DOMAIN neutrals' :
                /\ neutrals'[j].id = neutrals[i].id
                /\ neutrals'[j].health < neutrals[i].health)
            => /\ TickStep
               /\ \E k \in DOMAIN hits' :
                      /\ hits'[k].target = neutrals[i].id
                      /\ ByPlayerOrDrone(hits'[k])

\* Turret fire in flight that neither expires nor hits a ship is still in
\* flight after the tick, whatever neutrals it passes.
TurretFireFliesOn ==
    TickStep =>
        \A k \in DOMAIN bullets :
            (/\ ~HasPlayer(bullets[k].ownerId)
             /\ BulletSurvives(bullets[k])
             /\ \A h \in DOMAIN hits' : hits'[h].by # bullets[k].id)
                => \E j \in DOMAIN bullets' : bullets'[j] = moveBullet(bullets[k])

C16_OnlyPlayersHarmNeutrals ==
    [] NoBlowByTurretFire /\ [][HarmedOnlyByPlayers /\ TurretFireFliesOn]_vars

\* After a tick a lighthouse bullet in flight lies within hit distance of a
\* buoy, which is still there with no blow but those of players.
C16_Witness ==
    /\ ticks > 0
    /\ \E k \in DOMAIN bullets : \E i \in DOMAIN neutrals :
           /\ ~HasPlayer(bullets[k].ownerId)
           /\ neutrals[i].id # bullets[k].ownerId
           /\ Overlaps(bullets[k], neutrals[i])

\* ------------------------------------------------------------------------
\* C17: when the stored progression record is missing or malformed (text
\* that does not parse, or parsed data with wrong-shaped fields such as an
\* unknown shipClass), the joined player has exactly the default state:
\* level 1, xp 0, score 0, patrol_boat, all stats 0, no upgrade points,
\* health = maxHealth = 100.
\* ------------------------------------------------------------------------
Malformed(st) ==
    \/ ~Parses(st)
    \/ ClassOrDefault(st.shipClass) \notin DOMAIN SHIP_STATS

IsDefault(p) ==
    /\ p.ship.level = 1
    /\ p.ship.xp = 0
    /\ p.ship.score = 0
    /\ p.ship.shipClass = "patrol_boat"
    /\ p.ship.stats = DEFAULT_STATS
    /\ p.upgradePoints = 0
    /\ p.ship.health = 100
    /\ p.ship.maxHealth = 100

JoinedOver(id) ==
    Only({w.players[PlayerIndex(w, id)] :
              w \in {handleJoinGame(World, id, Name(id), HomeX(id), clock)}})

C17_MalformedSaveGivesDefaults ==
    (~save.present \/ Malformed(save)) =>
        \A id \in PlayerIds : IsDefault(JoinedOver(id))

\* ------------------------------------------------------------------------
\* C18: after any sequence of deaths of the local player the stored
\* high-score list has at most 10 entries in non-increasing score order,
\* holds the 10 highest scores among all deaths so far, and the last-game
\* pointer is the entry (name, score at death) of the most recent death.
\* ------------------------------------------------------------------------
IsKept(e) == \E k \in DOMAIN leaderboard.highScores : leaderboard.highScores[k] = e

HighScoresKept ==
    LET hs == leaderboard.highScores
    IN /\ Len(hs) = Min(10, Len(fallen))
       /\ \A k \in 1..(Len(hs) - 1) : hs[k].score >= hs[k + 1].score
       /\ \A k, l \in DOMAIN hs : k # l => hs[k] # hs[l]
       /\ \A k \in DOMAIN hs : \E j \in DOMAIN fallen : fallen[j] = hs[k]
       /\ \A j \in DOMAIN fallen :
              ~IsKept(fallen[j]) => \A k \in DOMAIN hs : hs[k].score >= fallen[j].score

LastGameKept ==
    leaderboard.lastGame =
        IF fallen = <<>> THEN <<>> ELSE <<fallen[Len(fallen)]>>

C18_HighScoresTopTen == HighScoresKept /\ LastGameKept

\* More deaths than the list holds, scores of both kinds kept, one dropped.
C18_Witness ==
    /\ Len(fallen) = MaxDeaths
    /\ Len(leaderboard.highScores) = 10
    /\ leaderboard.highScores[1].score > leaderboard.highScores[10].score
    /\ \E j \in DOMAIN fallen : ~IsKept(fallen[j])
    /\ IsKept(fallen[MaxDeaths])

\* ------------------------------------------------------------------------
\* C19: no tunneling.  A ship (radius 25), a cargo ship (radius 30) or a
\* bullet that does not ignore terrain moves along the segment prev -> next
\* in a tick; if the segment meets an island's circle expanded by the
\* entity's radius, the entity is outside that expanded circle after the
\* tick (the bullet is removed instead), for every island and displacement.
\* ------------------------------------------------------------------------
Meets(px, py, nx, ny, isl, R) ==
    \/ DistSq(nx, ny, isl.x, isl.y) < R * R
    \/ getFirstSegmentCircleHitT(px, py, nx, ny, isl.x, isl.y, R).hit

Outside(e, isl, R) == DistSq(e.x, e.y, isl.x, isl.y) > R * R

ShipsClear ==
    \A i \in DOMAIN players : \A k \in DOMAIN Islands :
        (/\ ~players[i].isDead
         /\ Meets(players[i].ship.x, players[i].ship.y,
                  Clamp(players[i].lastInput.x, 30, WORLD_WIDTH - 30),
                  Clamp(players[i].lastInput.y, 30, WORLD_HEIGHT - 30),
                  Islands[k], Islands[k].radius + SHIP_RADIUS))
            => Outside(players'[i].ship, Islands[k], Islands[k].radius + SHIP_RADIUS)

CargoClear ==
    \A i \in DOMAIN neutrals : \A k \in DOMAIN Islands :
        (/\ neutrals[i].type = "cargo"
         /\ Meets(neutrals[i].x, neutrals[i].y,
                  neutrals[i].x + PerTick(neutrals[i].velocityX),
                  neutrals[i].y + PerTick(neutrals[i].velocityY),
                  Islands[k], Islands[k].radius + 30))
            => \A j \in DOMAIN neutrals' :
                   neutrals'[j].id = neutrals[i].id
                       => Outside(neutrals'[j], Islands[k], Islands[k].radius + 30)

BulletsStopped ==
    \A i \in DOMAIN bullets : \A k \in DOMAIN Islands :
        (/\ ~bullets[i].ignoreTerrain
         /\ Meets(bullets[i].x, bullets[i].y,
                  moveBullet(bullets[i]).x, moveBullet(bullets[i]).y,
                  Islands[k], Islands[k].radius + BULLET_RADIUS))
            => \A j \in DOMAIN bullets' : bullets'[j].id # bullets[i].id

C19_NoTunneling ==
    [][TickStep => ShipsClear /\ CargoClear /\ BulletsStopped]_vars

\* ------------------------------------------------------------------------
\* C20 (as stated): a fault of the consumer on a snapshot is caught at the
\* consumer boundary and does not propagate into the tick; it neither stops
\* later ticks nor leaves the world of the current tick partially updated.
\* ------------------------------------------------------------------------

\* The interval stays set whatever became of the last snapshot, so the timer
\* fires again.
TicksGoOn == consumer.timer

\* The world and the snapshot after a tick whose snapshot the consumer failed
\* on are those of the whole tick.
FaultedTickComplete ==
    (TickStep /\ consumer'.faults > consumer.faults)
        => \E r \in SpawnDraws : \E w \in {tick(World, clock', r)} :
              /\ Becomes(w)
              /\ snapshot' = GameState(w, clock')

SnapshotIsLastStep ==
    TickStep =>
        /\ snapshot'.timestamp = clock'
        /\ snapshot'.bullets = bullets'
        /\ snapshot'.neutrals = neutrals'
        /\ snapshot'.drones = drones'
        /\ snapshot'.ships = [i \in 1..Len(players') |-> players'[i].ship]

SnapshotOnlyByTick ==
    ~TickStep => (snapshot' = snapshot /\ bullets' = bullets /\ neutrals' = neutrals)

SpentAbsent ==
    TickStep =>
        \A k \in DOMAIN hits' :
            /\ hits'[k].via = "bullet" => hits'[k].by \notin Ids(snapshot'.bullets)
            /\ (hits'[k].targetKind = "neutral" /\ hits'[k].after <= 0)
                   => hits'[k].target \notin Ids(snapshot'.neutrals)

GoneStaysGone ==
    TickStep =>
        /\ \A id \in Ids(snapshot'.bullets) :
               id \in Ids(bullets) \/ id[2] >= bulletIdCounter
        /\ \A id \in Ids(snapshot'.neutrals) :
               id \in Ids(neutrals) \/ id[2] >= neutralIdCounter

C21_SnapshotWithoutRemoved ==
    [][SnapshotIsLastStep /\ SnapshotOnlyByTick /\ SpentAbsent /\ GoneStaysGone]_vars

\* A tick in which a bullet destroyed a neutral has emitted its snapshot.
C21_Witness ==
    /\ ticks >= 1
    /\ snapshot.timestamp = clock
    /\ \E k \in DOMAIN hits :
          /\ hits[k].via = "bullet"
          /\ hits[k].targetKind = "neutral"
          /\ hits[k].after <= 0
          /\ hits[k].target \notin Ids(snapshot.neutrals)
          /\ hits[k].by \notin Ids(snapshot.bullets)

\* ------------------------------------------------------------------------
\* C22: when the blow that brings a neutral's health to 0 or below is dealt
\* by a drone, in the homing-contact step or in the drone-vs-neutral pass,
\* the neutral's xpValue is awarded to the player who owns the drone.
\* ------------------------------------------------------------------------
ByDrone(h) == h.via \in {"homing", "drone"} /\ h.targetKind = "neutral"

DroneKillPaysOwner ==
    TickStep =>
        \A k \in DOMAIN hits' :
            (ByDrone(hits'[k]) /\ hits'[k].after <= 0) =>
                /\ hits'[k].xp = ledger'[hits'[k].target].xpValue
                /\ \E i \in DOMAIN players' : players'[i].id = hits'[k].owner
                /\ \E e \in DOMAIN emitted' :
                      /\ emitted'[e].type = "xpGained"
                      /\ emitted'[e].amount = hits'[k].xp

C22_DroneKillPaysOwner == [][DroneKillPaysOwner]_vars

\* ------------------------------------------------------------------------
\* C23: in every reachable state 1 <= level <= MAX_LEVEL and xp >= 0 for
\* every ship; a ship at MAX_LEVEL keeps its level and its upgrade points
\* through every XP award, ticks included.
\* ------------------------------------------------------------------------
LevelInRange ==
    \A i \in DOMAIN players :
        /\ 1 <= players[i].ship.level
        /\ players[i].ship.level <= MAX_LEVEL
        /\ players[i].ship.xp >= 0

\* The buoy's 8, the 300 of a sunk level-10 ship, and the threshold
\* getXPToNextLevel reports at the cap.
AwardedAmounts == {8, 300, 999999}

CapOnAward ==
    \A i \in DOMAIN players :
        players[i].ship.level = MAX_LEVEL =>
            \A amount \in AwardedAmounts :
                \E w \in {awardXP(World, i, amount)} :
                    /\ w.players[i].ship.level = MAX_LEVEL
                    /\ w.players[i].upgradePoints = players[i].upgradePoints
                    /\ w.players[i].ship.xp = players[i].ship.xp + amount

CapOnTick ==
    TickStep =>
        \A i \in DOMAIN players :
            players[i].ship.level = MAX_LEVEL =>
                /\ players'[i].ship.level = MAX_LEVEL
                /\ players'[i].upgradePoints = players[i].upgradePoints

C23_LevelCapped == [](LevelInRange /\ CapOnAward) /\ [][CapOnTick]_vars

\* A ship at the cap has just been paid for a neutral it destroyed.
C23_Witness ==
    \E k \in DOMAIN hits : \E i \in DOMAIN players :
        /\ hits[k].xp > 0
        /\ players[i].id = hits[k].owner
        /\ players[i].ship.level = MAX_LEVEL
        /\ players[i].ship.xp >= hits[k].xp

\* ------------------------------------------------------------------------
\* C24: clampEntityOutsideIslandAlongSegment applied to a zero-length segment
\* (prev = next) returns a position that is not inside the island's circle
\* expanded by the entity's radius, wherever the entity rests, the island's
\* centre included.  The resting entities are the ships where they are.
\* ------------------------------------------------------------------------
RestsClear(x, y, entityRadius, isl) ==
    \E at \in {clampEntityOutsideIslandAlongSegment(x, y, x, y, entityRadius, isl)} :
        DistSq(at.x, at.y, isl.x, isl.y)
            >= (isl.radius + entityRadius) * (isl.radius + entityRadius)

C24_ZeroSegmentClamped ==
    \A i \in DOMAIN players : \A k \in DOMAIN Islands :
        RestsClear(players[i].ship.x, players[i].ship.y, SHIP_RADIUS, Islands[k])

\* ------------------------------------------------------------------------
\* C25: queryInto(x, y, range, out) empties out and then yields, exactly once
\* each, the inserted values whose cell lies in the cell range covering the
\* square [x - range, x + range] x [y - range, y + range], and nothing else;
\* every inserted value within distance range of (x, y) is among them.  For
\* points of the whole world, cell 0 and negative query corners included.
\* ------------------------------------------------------------------------
CellOf(c) == FloorDiv(c, GRID_CELL_SIZE)

InCellRange(v, q) ==
    /\ CellOf(q.x - Max(0, q.range)) <= CellOf(v.x)
    /\ CellOf(v.x) <= CellOf(q.x + Max(0, q.range))
    /\ CellOf(q.y - Max(0, q.range)) <= CellOf(v.y)
    /\ CellOf(v.y) <= CellOf(q.y + Max(0, q.range))

Yielded(out, v) == Cardinality({j \in DOMAIN out : out[j] = v})

QueryAnswered(grid, q, out) ==
    /\ \A k \in DOMAIN grid :
          /\ Yielded(out, grid[k].value)
                 = (IF InCellRange(grid[k].value, q) THEN 1 ELSE 0)
          /\ DistSq(grid[k].value.x, grid[k].value.y, q.x, q.y)
                 <= Max(0, q.range) * Max(0, q.range)
                     => Yielded(out, grid[k].value) = 1
    /\ \A j \in DOMAIN out : \E k \in DOMAIN grid : out[j] = grid[k].value

QuerySteps ==
    (probe' # probe /\ probe'.grid = probe.grid)
        => QueryAnswered(probe.grid, probe'.asked[1], probe'.out)

C25_QueryIntoExact == [][QuerySteps]_vars

\* A query whose square has negative corners has replaced the candidates of
\* an earlier query by the two values of cell 0, leaving a third value out.
C25_Witness ==
    /\ Len(probe.grid) = MaxInserts
    /\ probe.asked # <<>>
    /\ probe.asked[1].x - probe.asked[1].range < 0
    /\ Len(probe.out) = 2
    /\ \A j \in DOMAIN probe.out : CellOf(probe.out[j].x) = 0
    /\ QueryAnswered(probe.grid, probe.asked[1], probe.out)

\* ------------------------------------------------------------------------
\* C26: a drone is single-use against neutrals.  A drone that has reduced a
\* neutral's health in the drone-vs-neutral pass of a tick is gone after the
\* tick and has damaged no second neutral in it (the drone of a homing
\* contact is spliced on the spot); a drone that has hit a ship is still in
\* the world, 30 px further from the ship.
\* ------------------------------------------------------------------------
SpentOnNeutral ==
    \A k \in DOMAIN hits' :
        (hits'[k].via = "drone" /\ hits'[k].targetKind = "neutral") =>
            /\ hits'[k].by \notin Ids(drones')
            /\ \A j \in DOMAIN hits' :
                  (hits'[j].via = "drone" /\ hits'[j].targetKind = "neutral"
                      /\ hits'[j].by = hits'[k].by) => j = k

KeptAfterShip ==
    \A k \in DOMAIN hits' :
        (hits'[k].via = "drone" /\ hits'[k].targetKind = "ship") =>
            hits'[k].by \in Ids(drones')

C26_DroneSingleUse == [][TickStep => SpentOnNeutral /\ KeptAfterShip]_vars

\* ------------------------------------------------------------------------
\* C27: a drone that hits a shielded ship emits a damageDealt of damage 0,
\* leaves the ship's health as it was and is pushed back; a drone that hits
\* an unshielded ship takes exactly DRONE_DAMAGE from it, and the ship is
\* dead after the tick when that brings its health to 0 or below.
\* ------------------------------------------------------------------------
DroneOnShip(h) == h.via = "drone" /\ h.targetKind = "ship"

\* The drone is in the world, at least the 30 px of the push from the ship.
PushedBack(h) ==
    \E d \in DOMAIN drones' : \E i \in DOMAIN players' :
        /\ drones'[d].id = h.by
        /\ players'[i].id = h.target
        /\ DistSq(drones'[d].x, drones'[d].y,
                  players'[i].ship.x, players'[i].ship.y) >= 30 * 30

DroneOnShield ==
    \A k \in DOMAIN hits' :
        (DroneOnShip(hits'[k]) /\ hits'[k].shielded) =>
            /\ hits'[k].after = hits'[k].before
            /\ PushedBack(hits'[k])
            /\ \E e \in DOMAIN emitted' :
                  /\ emitted'[e].type = "damageDealt"
                  /\ emitted'[e].damage = 0

DroneOnHull ==
    \A k \in DOMAIN hits' :
        (DroneOnShip(hits'[k]) /\ ~hits'[k].shielded) =>
            /\ hits'[k].after = hits'[k].before - DRONE_DAMAGE
            /\ PushedBack(hits'[k])
            /\ hits'[k].after <= 0 =>
                   /\ \E i \in DOMAIN players' :
                         players'[i].id = hits'[k].target /\ players'[i].isDead
                   /\ \E e \in DOMAIN emitted' :
                         /\ emitted'[e].type = "playerDied"
                         /\ emitted'[e].victimId = hits'[k].target

C27_DroneOnShip == [][TickStep => DroneOnShield /\ DroneOnHull]_vars

\* ------------------------------------------------------------------------
\* C28: in the ship-vs-ship pass of a tick each unordered pair of ships is
\* evaluated at most once, and an overlapping pair loses exactly 1 health
\* each: a pair of ships alive when the pass is prepared and nearer than
\* 2 * SHIP_RADIUS where the player update has put them has one blow of
\* damage 1 each way, and no pair has more.
\* ------------------------------------------------------------------------
Rams(log, target, by) ==
    SelectSeq(log, LAMBDA h : h.via = "ram" /\ h.target = target /\ h.by = by)

PairAtMostOnce ==
    \A i, j \in DOMAIN players :
        \E r \in {Rams(hits', players[i].id, players[j].id)} :
            /\ Len(r) <= 1
            /\ \A k \in DOMAIN r : r[k].damage = 1 /\ r[k].after = r[k].before - 1

OverlapCostsOne ==
    \E w \in {updatePlayers(World, clock')} :
        \A i, j \in DOMAIN players :
            (/\ i < j
             /\ ~players[i].isDead
             /\ ~players[j].isDead
             /\ DistSq(w.players[i].ship.x, w.players[i].ship.y,
                       w.players[j].ship.x, w.players[j].ship.y)
                    < (2 * SHIP_RADIUS) * (2 * SHIP_RADIUS))
                => /\ Len(Rams(hits', players[i].id, players[j].id)) = 1
                   /\ Len(Rams(hits', players[j].id, players[i].id)) = 1

C28_PairOnceCostsOne == [][TickStep => PairAtMostOnce /\ OverlapCostsOne]_vars

\* ------------------------------------------------------------------------
\* C29: death is evaluated independently for the two ships of a colliding
\* pair: when the mutual collision damage of one evaluation leaves both
\* ships at health 0 or below, both ships are dead at the end of that tick.
\* ------------------------------------------------------------------------
\* The two blows of one evaluated pair are logged one after the other.
PairBlows(log, k) ==
    /\ k + 1 \in DOMAIN log
    /\ log[k].via = "ram"
    /\ log[k + 1].via = "ram"
    /\ log[k].target = log[k + 1].by
    /\ log[k].by = log[k + 1].target

BothSunk ==
    \A k \in DOMAIN hits' :
        (/\ k > Len(hits)
         /\ PairBlows(hits', k)
         /\ hits'[k].after <= 0
         /\ hits'[k + 1].after <= 0)
            => \A i \in DOMAIN players' :
                   players'[i].id \in {hits'[k].target, hits'[k + 1].target}
                       => players'[i].isDead

C29_BothDie == [][TickStep => BothSunk]_vars

\* ------------------------------------------------------------------------
\* C30: a ship that died earlier in a tick, from a bullet in the
\* bullet-vs-ship pass, is not processed again in the same tick: the later
\* ship-vs-ship and drone passes neither damage it nor let it deal
\* collision damage, they leave it where the player update put it, and it
\* earns no kill credit or XP.
\* ------------------------------------------------------------------------
ShotDead(log, k) ==
    log[k].via = "bullet" /\ log[k].targetKind = "ship" /\ log[k].died

LeftAlone(log, k) ==
    \A m \in DOMAIN log :
        (m > k /\ log[m].via \in {"ram", "drone"})
            => log[m].target # log[k].target /\ log[m].by # log[k].target

DeadUntouched ==
    \E w \in {updatePlayers(World, clock')} :
        \A k \in DOMAIN hits' :
            (k > Len(hits) /\ ShotDead(hits', k))
                => /\ LeftAlone(hits', k)
                   /\ \A i \in DOMAIN players :
                          players[i].id = hits'[k].target
                              => /\ players'[i].ship.x = w.players[i].ship.x
                                 /\ players'[i].ship.y = w.players[i].ship.y
                                 /\ players'[i].ship.kills = players[i].ship.kills
                                 /\ players'[i].ship.xp = players[i].ship.xp

C30_DeadNotReprocessed == [][TickStep => DeadUntouched]_vars

\* ------------------------------------------------------------------------
\* C31: a lighthouse or tank creates a bullet only when more than its
\* fire-rate interval (2000 ms / 1500 ms) has passed since its previous shot
\* and some player is alive, not stealthed, past spawn protection and closer
\* than its range (500 / 400); the shot is aimed at the nearest such player;
\* buoys and cargo vessels never create bullets.
\* ------------------------------------------------------------------------
\* The neutral with this id as the tick found it: one spawned by the tick's
\* own spawn step has not fired yet.
TurretsAt(id) ==
    IF id \in Ids(neutrals)
    THEN {neutrals[k] : k \in {j \in DOMAIN neutrals : neutrals[j].id = id}}
    ELSE {[neutrals'[k] EXCEPT !.lastFireTime = 0]
              : k \in {j \in DOMAIN neutrals' : neutrals'[j].id = id}}

TurretRange(n) == IF n.type = "lighthouse" THEN LIGHTHOUSE_RANGE ELSE TANK_RANGE

TurretFireRate(n) ==
    IF n.type = "lighthouse" THEN LIGHTHOUSE_FIRE_RATE ELSE TANK_FIRE_RATE

ValidTarget(p, n, now) ==
    /\ ~p.isDead
    /\ ~p.ship.isStealthed
    /\ now >= p.spawnProtectionUntil
    /\ DistSq(n.x, n.y, p.ship.x, p.ship.y) < TurretRange(n) * TurretRange(n)

ShotInOrder(w, e, n) ==
    /\ n.type \in {"lighthouse", "tank"}
    /\ n.lastFireTime = 0 \/ clock' - n.lastFireTime > TurretFireRate(n)
    /\ \E i \in DOMAIN w.players :
          /\ w.players[i].id = e.target
          /\ ValidTarget(w.players[i], n, clock')
          /\ \A j \in DOMAIN w.players :
                 ValidTarget(w.players[j], n, clock')
                     => DistSq(n.x, n.y, w.players[i].ship.x, w.players[i].ship.y)
                            <= DistSq(n.x, n.y, w.players[j].ship.x, w.players[j].ship.y)

TurretShotsInOrder ==
    \E w \in {updatePlayers(World, clock')} :
        \A k \in DOMAIN aimed' :
            /\ TurretsAt(aimed'[k].neutral) # {}
            /\ \A n \in TurretsAt(aimed'[k].neutral) : ShotInOrder(w, aimed'[k], n)

\* A bullet made in this step is a player's, or the one shot of a turret.
NewBulletsAccounted ==
    \A k \in DOMAIN bullets' :
        bullets'[k].id[2] >= bulletIdCounter
            => \/ \E i \in DOMAIN players : players[i].id = bullets'[k].ownerId
               \/ \E m \in DOMAIN aimed' : aimed'[m].neutral = bullets'[k].ownerId

NoShotsOutsideTicks == aimed' = <<>>

NoBuoyOrCargoFire ==
    \A k \in DOMAIN bullets : bullets[k].ownerId[1] \notin {"buoy", "cargo"}

C31_TurretFire ==
    /\ []NoBuoyOrCargoFire
    /\ [][IF TickStep THEN TurretShotsInOrder /\ NewBulletsAccounted
                      ELSE NoShotsOutsideTicks]_vars

\* A turret has just fired at the second ship, the local ship, nearer to it,
\* being no valid target.
C31_Witness ==
    /\ \E k \in DOMAIN aimed : aimed[k].target = otherPlayerId
    /\ \E i \in DOMAIN players : players[i].id = localPlayerId
    /\ \E k \in DOMAIN neutrals :
          neutrals[k].lastFireTime = clock /\ clock >= Scene.start + 2 * SPAWN_PROTECTION_MS

\* ------------------------------------------------------------------------
\* C32: the neutral population never exceeds its cap: in every reachable
\* state the number of neutrals is at most MAX_NEUTRALS (50), and the spawn
\* step of one tick adds at most one neutral, and only when more than the
\* spawn interval has passed since the last spawn attempt; no other step
\* adds a neutral.
\* ------------------------------------------------------------------------
PopulationCapped == Len(neutrals) <= MAX_NEUTRALS

\* Every neutral made takes the next number of neutralIdCounter.
NeutralsMade == neutralIdCounter' - neutralIdCounter

SpawnStepBounded ==
    /\ NeutralsMade \in {0, 1}
    /\ Len(neutrals') <= Len(neutrals) + NeutralsMade
    /\ NeutralsMade = 1 => clock' - lastNeutralSpawn > NEUTRAL_SPAWN_INTERVAL
    /\ lastNeutralSpawn' =
           IF clock' - lastNeutralSpawn > NEUTRAL_SPAWN_INTERVAL
           THEN clock' ELSE lastNeutralSpawn

NoSpawnOutsideTicks ==
    /\ NeutralsMade = 0
    /\ Len(neutrals') <= Len(neutrals)

C32_PopulationCap ==
    /\ []PopulationCapped
    /\ [][IF TickStep THEN SpawnStepBounded ELSE NoSpawnOutsideTicks]_vars

\* The sea is full, and a spawn step has been turned away at the cap.
C32_Witness ==
    /\ Len(neutrals) = MAX_NEUTRALS
    /\ neutralIdCounter = MAX_NEUTRALS
    /\ ticks = 1
    /\ lastNeutralSpawn = clock
    /\ clock = Scene.start + 7 * (NEUTRAL_SPAWN_INTERVAL + TICK_INTERVAL)
                   + SPAWN_PROTECTION_MS

\* ------------------------------------------------------------------------
\* C33: every bullet and every drone is removed in the end: a bullet made
\* with lifetime L ms is in the snapshots of fewer than L / 50 ticks, its
\* first tick included (40 ticks for player bullets, 60 for turret bullets),
\* a drone in those of fewer than 100, whatever it hits or misses: each tick
\* takes 50 ms off the lifetime of every bullet and drone it keeps, and keeps
\* none at 0 or below; every bullet in a snapshot lies inside the world.
\* ------------------------------------------------------------------------
MadeWith(b) ==
    IF \E i \in DOMAIN players : players[i].id = b.ownerId
    THEN PLAYER_BULLET_LIFETIME ELSE NEUTRAL_BULLET_LIFETIME

\* Snapshots an entity made with lifetime ranOut has been in.
TicksSeen(e, ranOut) == (ranOut - e.lifetime) \div TICK_INTERVAL

InsideWorld(b) ==
    b.x >= 0 /\ b.x <= WORLD_WIDTH /\ b.y >= 0 /\ b.y <= WORLD_HEIGHT

InFlight(bs, ds) ==
    /\ \A k \in DOMAIN bs :
          /\ bs[k].lifetime > 0
          /\ InsideWorld(bs[k])
          /\ (MadeWith(bs[k]) - bs[k].lifetime) % TICK_INTERVAL = 0
          /\ TicksSeen(bs[k], MadeWith(bs[k])) \in
                 1..(MadeWith(bs[k]) \div TICK_INTERVAL - 1)
    /\ \A k \in DOMAIN ds :
          /\ ds[k].lifetime > 0
          /\ (DRONE_LIFETIME - ds[k].lifetime) % TICK_INTERVAL = 0
          /\ TicksSeen(ds[k], DRONE_LIFETIME) \in 1..(LongestFlight - 1)

AllInFlight ==
    /\ InFlight(bullets, drones)
    /\ InFlight(snapshot.bullets, snapshot.drones)

\* One more snapshot for everything the tick keeps; what it makes is in its
\* first.
AgedByTick ==
    /\ \A k \in DOMAIN bullets' :
          TicksSeen(bullets'[k], MadeWith(bullets'[k])) =
              IF \E j \in DOMAIN bullets : bullets[j].id = bullets'[k].id
              THEN 1 + TicksSeen(CHOOSE b \in {bullets[j] : j \in DOMAIN bullets} :
                                     b.id = bullets'[k].id, MadeWith(bullets'[k]))
              ELSE 1
    /\ \A k \in DOMAIN drones' :
          TicksSeen(drones'[k], DRONE_LIFETIME) =
              IF \E j \in DOMAIN drones : drones[j].id = drones'[k].id
              THEN 1 + TicksSeen(CHOOSE d \in {drones[j] : j \in DOMAIN drones} :
                                     d.id = drones'[k].id, DRONE_LIFETIME)
              ELSE 1

RestBetweenTicks == bullets' = bullets /\ drones' = drones

C33_FlightsEnd ==
    /\ []AllInFlight
    /\ [][IF TickStep THEN AgedByTick ELSE RestBetweenTicks]_vars

\* A bullet, a shell and a drone, each in one of its last snapshots when the
\* run began, are gone, and the ship has a new bullet in flight.
C33_Witness ==
    /\ ticks >= 2
    /\ bulletIdCounter >= 3
    /\ droneIdCounter = 1
    /\ drones = <<>>
    /\ bullets # <<>>
    /\ \A k \in DOMAIN bullets : bullets[k].id[2] >= 2

\* ------------------------------------------------------------------------
\* C34: fire cooldown: a living player creates at most one bullet per tick
\* and only while the buffered input has fire set; two successive bullets of
\* the same player are separated by more than
\* max(100, class fireRate - 50 * reloadBonus) ms; a dead player creates no
\* bullets.
\* ------------------------------------------------------------------------
FireCooldown(p) ==
    Max(100, SHIP_STATS[p.ship.shipClass].fireRate - p.ship.stats.reloadBonus * 50)

\* players[i] has fired in this tick: spawnBullet and the stamp go together.
Fired(i) == players'[i].lastFireTime = clock'

\* The bullets of this owner that the previous tick made, as its snapshot
\* shows them.
MadeLastTick(id) ==
    {k \in DOMAIN snapshot.bullets :
        /\ snapshot.bullets[k].ownerId = id
        /\ snapshot.bullets[k].lifetime = PLAYER_BULLET_LIFETIME - TICK_INTERVAL}

\* One bullet per firing player and one per turret shot, no others.
OneBulletEach ==
    bulletIdCounter' - bulletIdCounter =
        Cardinality({i \in DOMAIN players : Fired(i)}) + Len(aimed')

FiredOnRequest ==
    \A i \in DOMAIN players :
        Fired(i) => ~players[i].isDead /\ players[i].lastInput.fire

\* By the time of the last bullet that the player's record remembers.
ApartByRecord ==
    \A i \in DOMAIN players :
        Fired(i) => clock' - players[i].lastFireTime > FireCooldown(players[i])

\* By the bullets themselves: one made in the previous tick, at the time of
\* its snapshot, and one made in this tick.
ApartBySnapshot ==
    \A i \in DOMAIN players :
        (Fired(i) /\ MadeLastTick(players[i].id) # {})
            => clock' - snapshot.timestamp > FireCooldown(players[i])

NoFireOutsideTicks == bulletIdCounter' = bulletIdCounter

C34_FireCooldown ==
    [][IF TickStep
       THEN OneBulletEach /\ FiredOnRequest /\ ApartByRecord /\ ApartBySnapshot
       ELSE NoFireOutsideTicks]_vars

\* What the code keeps: the cooldown runs from the last shot of the player's
\* record, which joinGame replaces.
FireCooldownOfRecord ==
    [][IF TickStep
       THEN OneBulletEach /\ FiredOnRequest /\ ApartByRecord
       ELSE NoFireOutsideTicks]_vars

\* ------------------------------------------------------------------------
\* C35: every ability activation expires: for a living ship with
\* abilityActive, isShielded or isStealthed set, the first player update at
\* or after the stored abilityActiveUntil clears all three flags, in every
\* reachable state, those reached by switching ship class or respawning
\* while the ability is active included; and an ability is activated only
\* when the cooldown deadline has passed and no ability is active.
\* ------------------------------------------------------------------------
AbilityFlagSet(sh) == sh.abilityActive \/ sh.isShielded \/ sh.isStealthed

\* players[i] has activated its ability in this tick.
ActivatedNow(i) ==
    /\ players'[i].ship.abilityActive
    /\ players'[i].abilityActiveUntil =
           clock' + SHIP_ABILITIES[players'[i].ship.shipClass].duration
    /\ players'[i].abilityCooldownUntil =
           clock' + SHIP_ABILITIES[players'[i].ship.shipClass].cooldown

Overdue(i) == clock' >= players[i].abilityActiveUntil

AbilityExpires ==
    \A i \in DOMAIN players :
        (~players[i].isDead /\ AbilityFlagSet(players[i].ship) /\ Overdue(i))
            => ~AbilityFlagSet(players'[i].ship) \/ ActivatedNow(i)

AbilityGated ==
    \A i \in DOMAIN players :
        (players'[i].abilityCooldownUntil # players[i].abilityCooldownUntil
            \/ (AbilityFlagSet(players'[i].ship) /\ ~AbilityFlagSet(players[i].ship)))
            => /\ ActivatedNow(i)
               /\ players[i].lastInput.useAbility
               /\ clock' >= players[i].abilityCooldownUntil
               /\ ~players[i].ship.abilityActive \/ Overdue(i)

\* No request raises a flag.
NoActivationOutsideTicks ==
    \A i \in DOMAIN players' :
        AbilityFlagSet(players'[i].ship)
            => i \in DOMAIN players /\ AbilityFlagSet(players[i].ship)

C35_AbilityExpires ==
    [][IF TickStep THEN AbilityExpires /\ AbilityGated
                   ELSE NoActivationOutsideTicks]_vars

\* ------------------------------------------------------------------------
\* C36: upgrade points are conserved: for a player whose progression was not
\* restored from a persisted record, in every reachable state
\* healthBonus + speedBonus + damageBonus + reloadBonus + upgradePoints
\* = level - 1.
\* ------------------------------------------------------------------------
\* Points held and spent, over the points the levels have paid.
Balance(p) == StatTotal(p) + p.upgradePoints - (p.ship.level - 1)

JoinedNow(id) ==
    \E k \in DOMAIN emitted' :
        emitted'[k].type = "playerId" /\ emitted'[k].player = id

\* A join that finds no record to restore starts in balance; no other step
\* takes a player out of balance.
BalanceKept ==
    \A i \in DOMAIN players' :
        IF JoinedNow(players'[i].id)
        THEN (~save.present \/ ~Parses(save)) => Balance(players'[i]) = 0
        ELSE /\ i \in DOMAIN players
             /\ Balance(players[i]) = 0 => Balance(players'[i]) = 0

\* The records these runs start with are in balance themselves, and so is
\* every player.
AllInBalance == \A i \in DOMAIN players : Balance(players[i]) = 0

C36_PointsConserved == []AllInBalance /\ [][BalanceKept]_vars

\* A player set back to level 1 by a respawn has reached level 2 and holds
\* the point it was paid.
C36_Witness ==
    \E i \in DOMAIN players :
        /\ players[i].ship.level = 2
        /\ players[i].upgradePoints = 1
        /\ StatTotal(players[i]) = 0

\* ------------------------------------------------------------------------
\* C37: a dead player stays at zero health: in every reachable state, and in
\* every emitted snapshot, isDead implies ship.health = 0, from the death
\* until the respawn, whatever XP awards, stat upgrades or class-switch
\* requests occur in between.
\* ------------------------------------------------------------------------
DeadAtZero ==
    \A i \in DOMAIN players : players[i].isDead => players[i].ship.health = 0

\* The snapshot lists the ships in the order of the players.
DeadAtZeroInSnapshot ==
    \A i \in DOMAIN players' :
        players'[i].isDead => snapshot'.ships[i].health = 0

C37_DeadStaysAtZero == []DeadAtZero /\ [][TickStep => DeadAtZeroInSnapshot]_vars

\* ------------------------------------------------------------------------
\* C38: once the local player's death has removed the progression save, the
\* store holds no progression record until that player respawns: while the
\* local player is dead no record is present, and no step that leaves the
\* local player dead (XP from bullets still in flight, a stat upgrade, a
\* class switch) creates one.
\* ------------------------------------------------------------------------
LocalDead(ps) == \E i \in DOMAIN ps : ps[i].id = localPlayerId /\ ps[i].isDead

NoRecordWhileDead == LocalDead(players) => ~save.present

NoRecordMadeWhileDead ==
    (LocalDead(players) /\ LocalDead(players') /\ ~save.present) => ~save'.present

C38_NoSaveUntilRespawn == []NoRecordWhileDead /\ [][NoRecordMadeWhileDead]_vars

\* ------------------------------------------------------------------------
\* C39: the respawn position survives the next tick: when a respawn is
\* followed by a tick with no input in between, the snapshot of that tick
\* reports the ship at the regenerated spawn position (up to world-bounds
\* and island clamping), not at the position of the input buffered before
\* the respawn.
\* ------------------------------------------------------------------------
\* The 'respawned' notifications of the last handler.
Respawned == {k \in DOMAIN emitted : emitted[k].type = "respawned"}

\* Where updatePlayers leaves a ship that stays at (x, y).
Settled(x, y) ==
    ClampAllIslands(1, x, y, [x |-> Clamp(x, 30, WORLD_WIDTH - 30),
                              y |-> Clamp(y, 30, WORLD_HEIGHT - 30)], SHIP_RADIUS)

ReportedWhereRespawned ==
    \A k \in Respawned :
        \A i \in {PlayerIndex(World, emitted[k].player)} \ {0} :
            \E at \in {Settled(emitted[k].x, emitted[k].y)} :
                /\ snapshot'.ships[i].x = at.x
                /\ snapshot'.ships[i].y = at.y

C39_RespawnPositionKept == [][TickStep => ReportedWhereRespawned]_vars

\* ------------------------------------------------------------------------
\* C40: entity ids are never reused: every bullet ever created has an id
\* distinct from all other bullets ever created, likewise every neutral
\* (tanks and spawned neutrals share one counter) and every drone; the id
\* counters only increase and are not reset by death or respawn.
\* ------------------------------------------------------------------------
\* The entities of seq carry distinct numbers, all of them handed out already.
IssuedOnce(seq, counter) ==
    /\ \A k \in DOMAIN seq : seq[k].id[2] \in 0..(counter - 1)
    /\ \A j, k \in DOMAIN seq : seq[j].id[2] = seq[k].id[2] => j = k

AllIssuedOnce ==
    /\ IssuedOnce(bullets, bulletIdCounter)
    /\ IssuedOnce(neutrals, neutralIdCounter)
    /\ IssuedOnce(drones, droneIdCounter)

IdsOf(seq) == {seq[k].id : k \in DOMAIN seq}

\* The entities a step adds carry numbers the counter had not reached before
\* the step, so no id of an entity made earlier (destroyed or not) comes back.
IssuedAfresh(before, after, counter) ==
    \A k \in DOMAIN after :
        after[k].id \notin IdsOf(before) => after[k].id[2] >= counter

CountersOnlyIncrease ==
    /\ bulletIdCounter' >= bulletIdCounter
    /\ neutralIdCounter' >= neutralIdCounter
    /\ droneIdCounter' >= droneIdCounter
    /\ IssuedAfresh(bullets, bullets', bulletIdCounter)
    /\ IssuedAfresh(neutrals, neutrals', neutralIdCounter)
    /\ IssuedAfresh(drones, drones', droneIdCounter)

C40_IdsNeverReused == []AllIssuedOnce /\ [][CountersOnlyIncrease]_vars

\* The local player has just respawned: bullets have come and gone, a neutral
\* has been spawned after the tank, and the counters stand where they stood.
C40_Witness ==
    /\ Respawned # {}
    /\ bulletIdCounter >= 2
    /\ Len(bullets) < bulletIdCounter
    /\ bullets # <<>>
    /\ neutralIdCounter > Len(InitialDraws) + 1
    /\ \E k \in DOMAIN neutrals : neutrals[k].type = "tank"

====
